---- MODULE Spec2Model ----
(***************************************************************************)
(* Incremental ingestion, deduplication and relevance scoring of the       *)
(* content-curation pipeline: RSSFeedCurator / RedditPostCurator           *)
(* (src/modules) and RelevanceScorer (src/backend/modules).                *)
(*                                                                         *)
(* Timestamps are the integers 1..MaxT; Python's None is NoneT = 0.        *)
(* A Firestore collection is a function from the ids of the documents that *)
(* exist to their contents.                                                *)
(***************************************************************************)
EXTENDS Integers, Sequences, FiniteSets, TLC

\* ------------------------------------------------------------------ bounds
MaxIds == 2            \* distinct entries a source can offer
MaxT == 2              \* distinct publication timestamps
MaxFetched == 3        \* entries one fetch can return
MaxItemsPerFeed == 2   \* max_items_per_feed / max_posts_per_subreddit
MaxCycles == 2         \* fetch_feed / fetch_subreddit calls in a behaviour
MaxFaults == 1         \* storage / network failures in a behaviour
MaxTextLen == 4        \* length of an endpoint response text
MaxAdvance == 3        \* cursor-advance calls applied in a row
MaxDelta == 2          \* items_processed passed to one cursor-advance call
MaxFieldLen == 1       \* length of a title / link / description field
MaxErrLen == 5         \* tokens of an error message
MaxSources == 2        \* configured feed urls / subreddits of one call
MaxReels == 3          \* objects in one generation response
MaxReelCycles == 2     \* calls of process_all_approved_ideas
MaxNow == 120          \* seconds on the clock when a scoring step may start
MaxCallDuration == 10  \* seconds one generate_content call may take
MaxIdle == 40          \* seconds between two items
MaxPosts == 4          \* distinct entries a source can return
MaxConfigNow == 800    \* seconds on the clock when a settings read may start
MaxConfigIdle == 200   \* seconds between two settings reads

\* ------------------------------------------------------- program constants
DEFAULT_MIN_SCORE == 0
DEFAULT_MAX_RETRIES == 3
DEFAULT_RETRY_DELAY == 60
RETRY_BUFFER == 5

DEFAULT_REELS_PER_IDEA == 2
MAX_RETRIES == 3
RATE_LIMIT_DELAY == 30
EMPTY_RESPONSE_DELAY == 10
CACHE_TTL == 300
NoneT == 0
NoneScore == -2        \* Optional[int] None of _call_gemini_api
SENTINEL == -1

Ids == 1..MaxIds
T == 1..MaxT
Curators == {"rss", "reddit"}   \* RSSFeedCurator, RedditPostCurator
Sources == {"a", "b"}           \* the configured feed urls / subreddits

\* min_score values a RelevanceScorerRunner can be constructed with
MinScores == {-1, DEFAULT_MIN_SCORE, 50}

Max(a, b) == IF a >= b THEN a ELSE b
Min(a, b) == IF a <= b THEN a ELSE b

\* ---------------------------------------------------- response text model
\* A response text is a sequence of characters; "x" stands for any letter,
\* "-" for the minus sign (a non-word character).
Alphabet == {"0", "1", "-", "x"}
Exc == <<"!">>         \* generate_content (or response.text) raised

RECURSIVE TextsOfLen(_)
TextsOfLen(n) ==
    IF n = 0 THEN {<<>>}
    ELSE {Append(t, c) : t \in TextsOfLen(n - 1), c \in Alphabet}

Texts == UNION {TextsOfLen(n) : n \in 0..MaxTextLen}
Responses == Texts \cup {Exc}

\* the responses the ingestion specification draws from
SampleResponses ==
    {<<"1", "0">>, <<"1", "1", "1">>, <<"-", "1">>, <<"1", "0", "-">>,
     <<"1", "1", "1", "-">>, <<>>, Exc}

IsDigit(c) == c \in {"0", "1", "9"}
IsWordChar(c) == c \in {"0", "1", "9", "x"}
DigitVal(c) == IF c = "1" THEN 1 ELSE IF c = "9" THEN 9 ELSE 0

AllDigits(s) == \A i \in 1..Len(s) : IsDigit(s[i])

RECURSIVE DecVal(_)
DecVal(s) ==
    IF s = <<>> THEN 0
    ELSE 10 * DecVal(SubSeq(s, 1, Len(s) - 1)) + DigitVal(s[Len(s)])

\* int(score_text): an optional sign followed by one or more digits;
\* anything else raises ValueError
PyIntOk(s) ==
    \/ Len(s) >= 1 /\ AllDigits(s)
    \/ Len(s) >= 2 /\ s[1] = "-" /\ AllDigits(Tail(s))

PyIntVal(s) == IF s[1] = "-" THEN 0 - DecVal(Tail(s)) ELSE DecVal(s)

\* maximal runs of word characters of s, left to right
RECURSIVE Words(_, _)
Words(s, cur) ==
    IF s = <<>> THEN (IF cur = <<>> THEN <<>> ELSE <<cur>>)
    ELSE IF IsWordChar(Head(s)) THEN Words(Tail(s), Append(cur, Head(s)))
    ELSE (IF cur = <<>> THEN <<>> ELSE <<cur>>) \o Words(Tail(s), <<>>)

IsShortNumber(w) == AllDigits(w) /\ Len(w) <= 3

\* re.findall(r'\b(\d{1,3})\b', score_text): the runs of word characters
\* that are one to three digits and nothing else
ReFindall(s) == SelectSeq(Words(s, <<>>), IsShortNumber)

\* _call_gemini_api clamping the parsed value into 0..100
CallGeminiApiClamped(resp) ==
    IF resp = Exc \/ resp = <<>> THEN NoneScore
    ELSE IF PyIntOk(resp) THEN Min(100, Max(0, PyIntVal(resp)))
    ELSE IF ReFindall(resp) # <<>> THEN Min(100, DecVal(ReFindall(resp)[1]))
    ELSE NoneScore

\* RelevanceScorer._call_gemini_api: the Optional[int] it returns for the
\* endpoint's response
CallGeminiApi(resp) ==
    IF resp = Exc THEN NoneScore
    ELSE IF resp = <<>> THEN NoneScore
    ELSE IF PyIntOk(resp)
         THEN (IF 0 <= PyIntVal(resp) /\ PyIntVal(resp) <= 100
               THEN PyIntVal(resp) ELSE NoneScore)
    ELSE IF ReFindall(resp) # <<>>
            /\ 0 <= DecVal(ReFindall(resp)[1])
            /\ DecVal(ReFindall(resp)[1]) <= 100
         THEN DecVal(ReFindall(resp)[1])
    ELSE NoneScore

\* ------------------------------------------------------------------ state
VARIABLES
    curator,      \* the class of the curator that is running
    store,        \* RAW_IDEAS: fingerprint id -> document
    meta,         \* RSS_METADATA / SUBREDDIT_METADATA: source -> cursor record
    enable_relevance_scoring,  \* the curator's flag after __init__
    scorer,       \* the RelevanceScorer: min_score and the retry loop
    cyc,          \* locals of the running fetch_feed / fetch_subreddit
    content_data, \* the document _store_content is working on
    log,          \* the outcome logged for each entry of the running call
    adv,          \* the cursor-advance calls applied so far, summed up
    scoreCalls,   \* calculate_relevance_score invocations per fingerprint
    writeFailed,  \* a content write has failed
    faults,       \* failures injected so far
    ncycles,      \* fetch_feed / fetch_subreddit calls so far
    fp,           \* two field triples and the strings fed to the hash
    delay,        \* an error text and the retry delay extracted from it
    coord,        \* locals of fetch_multiple_feeds / fetch_multiple_subreddits
    reel,         \* locals of process_all_approved_ideas
    reel_ideas,   \* REEL_IDEAS: parent id -> number of reel documents
    req,          \* locals of _make_gemini_request_with_retry
    gate,         \* the clock and the _last_api_call of each RelevanceScorer
    runner,       \* the curator runner: start, the curator it built, stop
    posts,        \* the entries one fetch returned and the loop over them
    config,       \* the ConfigManager: its cache, its timestamp, the clock
    race,         \* two ingestion processes inside _store_content
    crashed       \* what a process crash interrupted

clientVars == <<req, gate, runner, posts, config, race, crashed>>

extraVars == <<fp, delay, coord, reel, reel_ideas, req, gate, runner, posts,
               config, race, crashed>>

vars == <<curator, store, meta, enable_relevance_scoring, scorer, cyc,
          content_data, log, adv, scoreCalls, writeFailed, faults, ncycles,
          fp, delay, coord, reel, reel_ideas, req, gate, runner, posts,
          config, race, crashed>>

coreVars == <<curator, store, meta, enable_relevance_scoring, scorer, cyc,
              content_data, log, adv, scoreCalls, writeFailed, faults,
              ncycles>>

stageVars == <<fp, delay, coord, reel, reel_ideas, req, gate, runner, posts>>

ingestVars == <<curator, store, meta, enable_relevance_scoring, cyc,
                content_data, log, adv, scoreCalls, writeFailed, faults,
                ncycles, fp, delay, coord, reel, reel_ideas, req, gate,
                runner, posts, config, race, crashed>>

\* ----------------------------------------------------------------- scorer
NoResult == [relevance_score |-> NoneScore, is_relevant |-> FALSE,
             evaluation_model |-> "none"]

IdleScorer(min_score) ==
    [min_score |-> min_score, pc |-> "idle", attempt |-> 0,
     score |-> NoneScore, resp |-> <<>>, result |-> NoResult]

\* a result that hands the missing score on as it is
ScoreResultNoSentinel(score, min_score) ==
    [relevance_score |-> score,
     is_relevant |-> (score >= min_score),
     evaluation_model |-> "gemini"]

\* calculate_relevance_score, lines 221-245: the result built after the loop
ScoreResult(score, min_score) ==
    LET final == IF score = NoneScore THEN SENTINEL ELSE score
    IN  [relevance_score |-> final,
         is_relevant |-> (final >= min_score),
         evaluation_model |-> "gemini"]

\* calculate_relevance_score, lines 247-259: the except branch
ErrorResult ==
    [relevance_score |-> SENTINEL, is_relevant |-> FALSE,
     evaluation_model |-> "error"]

\* calculate_relevance_score up to the first endpoint call; prepOk is false
\* when _prepare_content_for_evaluation raises
StartScoring(sc, prepOk) ==
    IF prepOk
    THEN [sc EXCEPT !.pc = "scoring", !.attempt = 0, !.score = NoneScore,
                    !.resp = <<>>, !.result = NoResult]
    ELSE [sc EXCEPT !.pc = "done", !.attempt = 0, !.score = NoneScore,
                    !.resp = <<>>, !.result = ErrorResult]

\* one iteration of the retry loop: one _call_gemini_api call, then either
\* the break, the next iteration, or the end of the loop and the result
AfterAttempt(sc, resp) ==
    LET s == CallGeminiApi(resp)
        n == sc.attempt + 1
    IN  IF s # NoneScore \/ n >= DEFAULT_MAX_RETRIES
        THEN [sc EXCEPT !.pc = "done", !.attempt = n, !.score = s,
                        !.resp = resp,
                        !.result = ScoreResult(s, sc.min_score)]
        ELSE [sc EXCEPT !.attempt = n, !.score = s, !.resp = resp]

ScoreAttempt(R) ==
    /\ scorer.pc = "scoring"
    /\ \E resp \in R : scorer' = AfterAttempt(scorer, resp)
    /\ UNCHANGED ingestVars

\* RelevanceScorerRunner.score_content
ScoreContent ==
    /\ scorer.pc \in {"idle", "done"}
    /\ \E prepOk \in BOOLEAN : scorer' = StartScoring(scorer, prepOk)
    /\ UNCHANGED ingestVars

\* ------------------------------------------------------------ cursor store
ZeroCursor == [last_processed |-> NoneT, total_items_processed |-> 0]

CursorView(m, s) == IF s \in DOMAIN m THEN m[s] ELSE ZeroCursor

\* a getter that hands out the persisted record whether or not the read
\* raised
GetMetadataRecordStale(m, s, readOk) == CursorView(m, s)

\* _get_RSS_METADATA / _get_subreddit_metadata: the record returned
GetMetadataRecord(m, s, readOk) ==
    IF readOk /\ s \in DOMAIN m THEN m[s] ELSE ZeroCursor

\* _get_RSS_METADATA / _get_subreddit_metadata: the collection afterwards
GetMetadataStore(m, s, readOk, createOk) ==
    IF readOk /\ s \notin DOMAIN m /\ createOk
    THEN (s :> ZeroCursor) @@ m
    ELSE m

\* _update_RSS_METADATA adding one whatever the number of items stored
UpdateMetadataByOne(m, s, last_processed, items_processed, ok) ==
    IF ok /\ s \in DOMAIN m
    THEN [m EXCEPT ![s] =
            [last_processed |-> last_processed,
             total_items_processed |-> @.total_items_processed + 1]]
    ELSE m

\* _update_RSS_METADATA / _update_subreddit_metadata; update() of a missing
\* document raises and the exception is swallowed
UpdateMetadata(m, s, last_processed, items_processed, ok) ==
    IF ok /\ s \in DOMAIN m
    THEN [m EXCEPT ![s] =
            [last_processed |-> last_processed,
             total_items_processed |->
                 @.total_items_processed + items_processed]]
    ELSE m

\* the update issued after every call
ShouldUpdateAlways(new_items_count, latest_processed_date, last_processed) ==
    TRUE

\* fetch_feed line 332 / fetch_subreddit line 372
ShouldUpdate(new_items_count, latest_processed_date, last_processed) ==
    new_items_count > 0 \/ latest_processed_date # last_processed

\* ------------------------------------------------------------- entry model
\* the publication-date string of a feed entry: missing, not a date, or the
\* text of timestamp t; a post's created_utc is always a number
DateOf(t) == [fmt |-> "date", t |-> t]
Undated == {[fmt |-> "empty", t |-> NoneT], [fmt |-> "garbage", t |-> NoneT]}

\* _generate_content_hash: the md5 of "title|link|summary" for a feed entry,
\* which the same entry in another feed shares, and of
\* "title|post_id|subreddit" for a post, which no other subreddit shares;
\* i stands for the entry's own text
GenerateContentHash(c, s, i) ==
    IF c = "rss" THEN i
    ELSE IF s = "a" THEN i
    ELSE MaxIds + i

Fingerprints == 1..(2 * MaxIds)

\* the entries a fetch of source s can return: an entry is published at one
\* fixed time; the last entry of a feed may also come without a usable date
EntryPool(c, s) ==
    {[id |-> GenerateContentHash(c, s, i),
      raw |-> DateOf(((i - 1) % MaxT) + 1)] : i \in Ids}
        \cup (IF c = "rss"
              THEN {[id |-> GenerateContentHash(c, s, MaxIds), raw |-> u] :
                        u \in Undated}
              ELSE {})

\* _parse_feed_date
ParseFeedDate(raw) ==
    IF raw.fmt = "empty" THEN NoneT
    ELSE IF raw.fmt = "date" THEN raw.t
    ELSE NoneT

\* the published value of the entry: _parse_feed_date for a feed entry,
\* datetime.fromtimestamp(post.created_utc) for a post
PublishedOf(c, raw) == IF c = "rss" THEN ParseFeedDate(raw) ELSE raw.t

\* _is_new_content taking an entry of the cursor's date for new
IsNewContentRSSInclusive(entry_date, last_processed) ==
    IF last_processed = NoneT THEN TRUE
    ELSE IF entry_date = NoneT THEN TRUE
    ELSE entry_date >= last_processed

\* RSSFeedCurator._is_new_content
IsNewContentRSS(entry_date, last_processed) ==
    IF last_processed = NoneT THEN TRUE
    ELSE IF entry_date = NoneT THEN TRUE
    ELSE entry_date > last_processed

\* _is_new_content taking an entry of the cursor's date for new
IsNewContentRedditInclusive(post_date, last_processed) ==
    IF last_processed = NoneT THEN TRUE
    ELSE post_date >= last_processed

\* RedditPostCurator._is_new_content
IsNewContentReddit(post_date, last_processed) ==
    IF last_processed = NoneT THEN TRUE
    ELSE post_date > last_processed

IsNewContent(c, date, last_processed) ==
    IF c = "rss" THEN IsNewContentRSS(date, last_processed)
    ELSE IsNewContentReddit(date, last_processed)

\* _extract_content_data / _extract_post_data: the fields that matter here
ExtractContentData(c, id, published) ==
    IF c = "rss"
    THEN [id |-> id, published |-> published, source_type |-> "rss_feed"]
    ELSE [id |-> id, published |-> published, source_type |-> "reddit_post",
          human_approved |-> FALSE, reel_generated |-> FALSE]

\* dict.update: d with the keys of u added or replaced
DictUpdate(d, u) ==
    [k \in DOMAIN d \cup DOMAIN u |-> IF k \in DOMAIN u THEN u[k] ELSE d[k]]

\* an existence check that finds nothing
DocExistsNever(st, id) == FALSE

\* _store_content: doc_ref.get().exists
DocExists(st, id) == id \in DOMAIN st

\* a cursor candidate moved to the newest time there is, whatever was stored
LatestProcessedDateNewest(entry_date, latest_processed_date) == MaxT

\* fetch_feed lines 321-323 / fetch_subreddit lines 359-361, after an entry
\* has been stored
LatestProcessedDate(entry_date, latest_processed_date) ==
    IF entry_date # NoneT
       /\ (latest_processed_date = NoneT
           \/ entry_date > latest_processed_date)
    THEN entry_date
    ELSE latest_processed_date

NoContent == [id |-> 0]

IdleCyc ==
    [pc |-> "idle", src |-> "a", last_processed |-> NoneT,
     latest_processed_date |-> NoneT, new_items_count |-> 0,
     processed |-> 0, fetched |-> 0, status |-> "none", updated |-> FALSE,
     cursorBefore |-> ZeroCursor, storeBefore |-> <<>>, faultsBefore |-> 0,
     metadata |-> ZeroCursor, readFailed |-> FALSE]

FetchError == -1

Cost(b) == IF b THEN 0 ELSE 1

\* fetch_feed lines 274-306 / fetch_subreddit lines 311-339: read the cursor,
\* fetch the entries; n is the number of entries fetched or FetchError
BeginFetch(s) ==
    /\ cyc.pc = "idle"
    /\ ncycles < MaxCycles
    /\ \E readOk \in BOOLEAN, createOk \in BOOLEAN, n \in -1..MaxFetched :
        LET metadata == GetMetadataRecord(meta, s, readOk)
            creating == readOk /\ s \notin DOMAIN meta
            cost == Cost(readOk) + Cost(n # FetchError)
                      + (IF creating THEN Cost(createOk) ELSE 0)
            begun == [IdleCyc EXCEPT
                        !.src = s,
                        !.last_processed = metadata.last_processed,
                        !.latest_processed_date = metadata.last_processed,
                        !.fetched = Max(n, 0),
                        !.cursorBefore = CursorView(meta, s),
                        !.storeBefore = store,
                        !.faultsBefore = faults,
                        !.metadata = metadata,
                        !.readFailed = ~readOk]
        IN  /\ creating \/ createOk
            /\ faults + cost <= MaxFaults
            /\ faults' = faults + cost
            /\ meta' = GetMetadataStore(meta, s, readOk, createOk)
            /\ cyc' = IF n = FetchError
                      THEN [begun EXCEPT !.pc = "done", !.status = "error"]
                      ELSE IF n = 0
                      THEN [begun EXCEPT !.pc = "done",
                                         !.status = "no_entries"]
                      ELSE [begun EXCEPT !.pc = "loop"]
    /\ ncycles' = ncycles + 1
    /\ log' = <<>>
    /\ UNCHANGED <<curator, store, enable_relevance_scoring, scorer,
                   content_data, adv, scoreCalls, writeFailed>>
    /\ UNCHANGED extraVars

\* one iteration of the entry loop up to the outcome of the existence check
\* of _store_content: a stale skip, a duplicate skip, or a document to score
\* and write. A failed existence check makes _store_content return False,
\* which the loop reports as a duplicate.
ExamineEntry ==
    /\ cyc.pc = "loop"
    /\ cyc.processed < Min(cyc.fetched, MaxItemsPerFeed)
    /\ \E entry \in EntryPool(curator, cyc.src),
          getOk \in BOOLEAN, prepOk \in BOOLEAN :
        LET id == entry.id
            published == PublishedOf(curator, entry.raw)
            isNew == IsNewContent(curator, published, cyc.last_processed)
            exists == DocExists(store, id)
            scores == isNew /\ getOk /\ ~exists /\ enable_relevance_scoring
            seen == [id |-> id, published |-> published, isNew |-> isNew,
                     present |-> id \in DOMAIN store, scored |-> scores,
                     cls |-> "pending", err |-> "none"]
        IN  /\ isNew \/ getOk
            /\ scores \/ prepOk
            /\ faults + Cost(getOk) <= MaxFaults
            /\ faults' = faults + Cost(getOk)
            /\ IF ~isNew
               THEN /\ cyc' = [cyc EXCEPT !.processed = @ + 1]
                    /\ log' = Append(log, [seen EXCEPT !.cls = "stale"])
                    /\ UNCHANGED <<content_data, scorer, scoreCalls>>
               ELSE IF ~getOk \/ exists
               THEN /\ cyc' = [cyc EXCEPT !.processed = @ + 1]
                    /\ log' = Append(log,
                                [seen EXCEPT !.cls = "duplicate",
                                     !.err = IF getOk THEN "none" ELSE "get"])
                    /\ UNCHANGED <<content_data, scorer, scoreCalls>>
               ELSE /\ cyc' = [cyc EXCEPT
                                 !.pc = IF enable_relevance_scoring
                                        THEN "score" ELSE "write"]
                    /\ log' = Append(log, seen)
                    /\ content_data' =
                         ExtractContentData(curator, id, published)
                    /\ IF enable_relevance_scoring
                       THEN /\ scorer' = StartScoring(scorer, prepOk)
                            /\ scoreCalls' =
                                 [scoreCalls EXCEPT ![id] = @ + 1]
                       ELSE UNCHANGED <<scorer, scoreCalls>>
    /\ UNCHANGED <<curator, store, meta, enable_relevance_scoring, adv,
                   writeFailed, ncycles>>
    /\ UNCHANGED extraVars

\* the rest of _store_content (content_data.update, doc_ref.set) and of the
\* loop iteration (the counters and latest_processed_date). A failed write
\* makes _store_content return False, which the loop reports as a duplicate.
WriteDoc ==
    /\ \/ cyc.pc = "write"
       \/ cyc.pc = "score" /\ scorer.pc = "done"
    /\ \E setOk \in BOOLEAN :
        LET doc == IF cyc.pc = "score"
                   THEN DictUpdate(content_data, scorer.result)
                   ELSE content_data
            entry_date == content_data.published
            n == Len(log)
        IN  /\ faults + Cost(setOk) <= MaxFaults
            /\ faults' = faults + Cost(setOk)
            /\ IF setOk
               THEN /\ store' = (content_data.id :> doc) @@ store
                    /\ cyc' = [cyc EXCEPT
                         !.pc = "loop",
                         !.processed = @ + 1,
                         !.new_items_count = @ + 1,
                         !.latest_processed_date =
                            LatestProcessedDate(entry_date, @)]
                    /\ log' = [log EXCEPT ![n].cls = "stored"]
                    /\ UNCHANGED writeFailed
               ELSE /\ cyc' = [cyc EXCEPT !.pc = "loop", !.processed = @ + 1]
                    /\ log' = [log EXCEPT ![n].cls = "duplicate",
                                          ![n].err = "set"]
                    /\ writeFailed' = TRUE
                    /\ UNCHANGED store
    /\ scorer' = IdleScorer(scorer.min_score)
    /\ content_data' = NoContent
    /\ UNCHANGED <<curator, meta, enable_relevance_scoring, adv, scoreCalls,
                   ncycles>>
    /\ UNCHANGED extraVars

\* a loop that may be left before its last entry
LoopExhaustedEarly(processed, fetched) == TRUE

\* the for loop of fetch_feed line 309 / fetch_subreddit lines 343-345 has
\* run out: every entry within the limit has been through the loop body
LoopExhausted(processed, fetched) ==
    processed = Min(fetched, MaxItemsPerFeed)

\* fetch_feed lines 329-350 / fetch_subreddit lines 369-389: the conditional
\* cursor update and the result
FinishFetch ==
    /\ cyc.pc = "loop"
    /\ LoopExhausted(cyc.processed, cyc.fetched)
    /\ \E updOk \in BOOLEAN :
        LET updating == ShouldUpdate(cyc.new_items_count,
                            cyc.latest_processed_date, cyc.last_processed)
        IN  /\ updating \/ updOk
            /\ faults + Cost(updOk) <= MaxFaults
            /\ faults' = faults + Cost(updOk)
            /\ meta' = IF updating
                       THEN UpdateMetadata(meta, cyc.src,
                                cyc.latest_processed_date,
                                cyc.new_items_count, updOk)
                       ELSE meta
            /\ cyc' = [cyc EXCEPT !.pc = "done", !.status = "success",
                                  !.updated = updating]
    /\ UNCHANGED <<curator, store, enable_relevance_scoring, scorer,
                   content_data, log, adv, scoreCalls, writeFailed, ncycles>>
    /\ UNCHANGED extraVars

\* fetch_multiple_feeds / fetch_multiple_subreddits take the result record;
\* the locals of the finished call are gone
Return ==
    /\ cyc.pc = "done"
    /\ cyc' = IdleCyc
    /\ log' = <<>>
    /\ UNCHANGED <<curator, store, meta, enable_relevance_scoring, scorer,
                   content_data, adv, scoreCalls, writeFailed, faults,
                   ncycles>>
    /\ UNCHANGED extraVars

\* a query that filters on human_approved only
IsApprovedRawIdeaAnyFlag(doc) ==
    "human_approved" \in DOMAIN doc /\ doc.human_approved = TRUE

\* get_approved_raw_ideas: the two equality filters of the query; a document
\* without a field matches no equality filter on that field
IsApprovedRawIdea(doc) ==
    /\ "human_approved" \in DOMAIN doc
    /\ doc.human_approved = TRUE
    /\ "reel_generated" \in DOMAIN doc
    /\ doc.reel_generated = FALSE

\* the external human review sets human_approved on a stored document,
\* between two calls of the curator
HumanApprove ==
    /\ cyc.pc = "idle"
    /\ \E id \in DOMAIN store :
        /\ ~("human_approved" \in DOMAIN store[id]
             /\ store[id].human_approved)
        /\ store' = [store EXCEPT
                       ![id] = DictUpdate(@, [human_approved |-> TRUE])]
    /\ UNCHANGED <<curator, meta, enable_relevance_scoring, scorer, cyc,
                   content_data, log, adv, scoreCalls, writeFailed, faults,
                   ncycles>>
    /\ UNCHANGED extraVars

\* a cursor-advance call on its own for source s, with any timestamp (None
\* when no stored item had a date and the cursor read was null) and any delta
AdvanceCursor(s) ==
    /\ adv["a"].calls + adv["b"].calls < MaxAdvance
    /\ \E t \in {NoneT} \cup T, d \in 0..MaxDelta :
        /\ meta' = UpdateMetadata(meta, s, t, d, TRUE)
        /\ adv' = [adv EXCEPT ![s].top = Max(@, t), ![s].sum = @ + d,
                              ![s].calls = @ + 1]
    /\ UNCHANGED <<curator, store, enable_relevance_scoring, scorer, cyc,
                   content_data, log, scoreCalls, writeFailed, faults,
                   ncycles>>
    /\ UNCHANGED extraVars

\* -------------------------------------------------------- specifications
NoFp == [pc |-> "idle"]
NoDelay == [pc |-> "idle"]
NoCoord == [pc |-> "idle"]
NoReel == [pc |-> "idle"]
NoReq == [pc |-> "idle"]
NoGate == [pc |-> "idle"]
NoRunner == [pc |-> "idle"]
NoPosts == [pc |-> "idle"]
NoConfig == [pc |-> "idle"]
NoRace == [pc |-> "idle"]
NoCrash == [pc |-> "none"]

ClientsIdle ==
    /\ req = NoReq
    /\ gate = NoGate
    /\ runner = NoRunner
    /\ posts = NoPosts
    /\ config = NoConfig
    /\ race = NoRace
    /\ crashed = NoCrash

\* the parts of the pipeline that a specification leaves out stay idle
ExtraIdle ==
    /\ fp = NoFp
    /\ delay = NoDelay
    /\ coord = NoCoord
    /\ reel = NoReel
    /\ reel_ideas = <<>>
    /\ ClientsIdle

NoAdvance == [s \in Sources |-> [top |-> NoneT, sum |-> 0, calls |-> 0]]

Init ==
    /\ curator \in Curators
    /\ store = <<>>
    /\ meta = <<>>
    /\ enable_relevance_scoring \in BOOLEAN
    /\ scorer = IdleScorer(DEFAULT_MIN_SCORE)
    /\ cyc = IdleCyc
    /\ content_data = NoContent
    /\ log = <<>>
    /\ adv = NoAdvance
    /\ scoreCalls = [i \in Fingerprints |-> 0]
    /\ writeFailed = FALSE
    /\ faults = 0
    /\ ncycles = 0
    /\ ExtraIdle

Next ==
    \/ \E s \in Sources : BeginFetch(s)
    \/ ExamineEntry
    \/ ScoreAttempt(SampleResponses)
    \/ WriteDoc
    \/ FinishFetch
    \/ Return
    \/ HumanApprove

Spec == Init /\ [][Next]_vars

\* the scorer on its own, driven through a RelevanceScorerRunner
InitScorer ==
    /\ curator = "rss"
    /\ store = <<>>
    /\ meta = <<>>
    /\ enable_relevance_scoring = TRUE
    /\ \E m \in MinScores : scorer = IdleScorer(m)
    /\ cyc = IdleCyc
    /\ content_data = NoContent
    /\ log = <<>>
    /\ adv = NoAdvance
    /\ scoreCalls = [i \in Fingerprints |-> 0]
    /\ writeFailed = FALSE
    /\ faults = 0
    /\ ncycles = 0
    /\ ExtraIdle

NextScorer ==
    \/ ScoreContent
    \/ ScoreAttempt(Responses)

SpecScorer == InitScorer /\ [][NextScorer]_vars

\* the ingestion and the scorer left idle
IngestIdle ==
    /\ curator = "rss"
    /\ store = <<>>
    /\ meta = <<>>
    /\ enable_relevance_scoring = TRUE
    /\ scorer = IdleScorer(DEFAULT_MIN_SCORE)
    /\ cyc = IdleCyc
    /\ content_data = NoContent
    /\ log = <<>>
    /\ adv = NoAdvance
    /\ scoreCalls = [i \in Fingerprints |-> 0]
    /\ writeFailed = FALSE
    /\ faults = 0
    /\ ncycles = 0

\* ------------------------------------------------------------ fingerprint
FieldChars == {"a", "|"}

RECURSIVE FieldsOfLen(_)
FieldsOfLen(n) ==
    IF n = 0 THEN {<<>>}
    ELSE {Append(f, c) : f \in FieldsOfLen(n - 1), c \in FieldChars}

Fields == UNION {FieldsOfLen(n) : n \in 0..MaxFieldLen}

\* _generate_content_hash: the string f"{title}|{link}|{description}"
\* (f"{title}|{post_id}|{subreddit}" for a post) that is fed to md5
ContentString(title, link, description) ==
    title \o <<"|">> \o link \o <<"|">> \o description

\* _generate_content_hash applied to two items
HashBoth ==
    /\ fp.pc = "input"
    /\ fp' = [fp EXCEPT !.pc = "hashed",
                        !.sx = ContentString(fp.x[1], fp.x[2], fp.x[3]),
                        !.sy = ContentString(fp.y[1], fp.y[2], fp.y[3])]
    /\ UNCHANGED <<scorer, delay, coord, reel, reel_ideas>>
    /\ UNCHANGED clientVars
    /\ UNCHANGED <<curator, store, meta, enable_relevance_scoring, cyc,
                   content_data, log, adv, scoreCalls, writeFailed, faults,
                   ncycles>>

InitHash ==
    /\ IngestIdle
    /\ \E x \in Fields \X Fields \X Fields, y \in Fields \X Fields \X Fields :
         fp = [pc |-> "input", x |-> x, y |-> y, sx |-> <<>>, sy |-> <<>>]
    /\ delay = NoDelay
    /\ coord = NoCoord
    /\ reel = NoReel
    /\ reel_ideas = <<>>
    /\ ClientsIdle

NextHash == HashBoth

SpecHash == InitHash /\ [][NextHash]_vars

\* ------------------------------------------------------------ retry delay
\* an error message as a sequence of tokens: "P" is the text
\* "Please retry in ", "R" is "retry_delay", "S" is "seconds:", " " is a
\* whitespace character, the others are the characters themselves
ErrTokens == {"P", "R", "{", "S", " ", "1", "9", ".", "s"}

RECURSIVE ErrTextsOfLen(_)
ErrTextsOfLen(n) ==
    IF n = 0 THEN {<<>>}
    ELSE {Append(t, c) : t \in ErrTextsOfLen(n - 1), c \in ErrTokens}

\* the error messages of at most maxLen tokens
ErrTexts(maxLen) == UNION {ErrTextsOfLen(n) : n \in 0..maxLen}

NoMatch == -1

\* the number of digits, of whitespace characters, that s has from i on
RECURSIVE DigitRun(_, _)
DigitRun(s, i) ==
    IF i <= Len(s) /\ IsDigit(s[i]) THEN 1 + DigitRun(s, i + 1) ELSE 0

RECURSIVE WsRun(_, _)
WsRun(s, i) ==
    IF i <= Len(s) /\ s[i] = " " THEN 1 + WsRun(s, i + 1) ELSE 0

Is(s, i, tok) == i <= Len(s) /\ s[i] = tok

\* the letter s under re.IGNORECASE: the character itself or the first
\* character of "seconds:"
IsLetterS(s, i) == i <= Len(s) /\ s[i] \in {"s", "S"}

\* int(float(group)): the digits before the point
FloatToInt(intDigits, fracDigits) == DecVal(intDigits)

\* r"Please retry in (\d+(?:\.\d+)?)s" matched at position i: the delay, or
\* NoMatch
Match1At(s, i) ==
    LET k == DigitRun(s, i + 1)
        j == i + 1 + k
        m == DigitRun(s, j + 1)
    IN  IF ~Is(s, i, "P") \/ k = 0 THEN NoMatch
        ELSE IF Is(s, j, ".") /\ m >= 1 /\ IsLetterS(s, j + 1 + m)
        THEN FloatToInt(SubSeq(s, i + 1, i + k), SubSeq(s, j + 1, j + m))
        ELSE IF IsLetterS(s, j)
        THEN FloatToInt(SubSeq(s, i + 1, i + k), <<>>)
        ELSE NoMatch

\* the pattern r"seconds:\s*(\d*)", which asks for no digit
Match3AtLoose(s, i) ==
    LET c == i + 1 + WsRun(s, i + 1)
        k == DigitRun(s, c)
    IN  IF Is(s, i, "S")
        THEN FloatToInt(SubSeq(s, c, c + k - 1), <<>>)
        ELSE NoMatch

\* r"seconds:\s*(\d+)" matched at position i
Match3At(s, i) ==
    LET c == i + 1 + WsRun(s, i + 1)
        k == DigitRun(s, c)
    IN  IF Is(s, i, "S") /\ k >= 1
        THEN FloatToInt(SubSeq(s, c, c + k - 1), <<>>)
        ELSE NoMatch

\* r"retry_delay\s*\{\s*seconds:\s*(\d+)" matched at position i
Match2At(s, i) ==
    LET a == i + 1 + WsRun(s, i + 1)
        b == a + 1 + WsRun(s, a + 1)
    IN  IF Is(s, i, "R") /\ Is(s, a, "{") THEN Match3At(s, b) ELSE NoMatch

MatchAt(pattern, s, i) ==
    IF pattern = 1 THEN Match1At(s, i)
    ELSE IF pattern = 2 THEN Match2At(s, i)
    ELSE Match3At(s, i)

\* re.search(pattern, error_message, re.IGNORECASE): the leftmost match
RECURSIVE ReSearchFrom(_, _, _)
ReSearchFrom(pattern, s, i) ==
    IF i > Len(s) THEN NoMatch
    ELSE IF MatchAt(pattern, s, i) # NoMatch THEN MatchAt(pattern, s, i)
    ELSE ReSearchFrom(pattern, s, i + 1)

ReSearch(pattern, s) == ReSearchFrom(pattern, s, 1)

\* _extract_retry_delay returning the delay without the buffer
ExtractRetryDelayNoBuffer(error_message) ==
    IF ReSearch(1, error_message) # NoMatch
    THEN ReSearch(1, error_message)
    ELSE IF ReSearch(2, error_message) # NoMatch
    THEN ReSearch(2, error_message)
    ELSE IF ReSearch(3, error_message) # NoMatch
    THEN ReSearch(3, error_message)
    ELSE DEFAULT_RETRY_DELAY

\* ReelGenerator._extract_retry_delay
ExtractRetryDelay(error_message) ==
    IF ReSearch(1, error_message) # NoMatch
    THEN ReSearch(1, error_message) + RETRY_BUFFER
    ELSE IF ReSearch(2, error_message) # NoMatch
    THEN ReSearch(2, error_message) + RETRY_BUFFER
    ELSE IF ReSearch(3, error_message) # NoMatch
    THEN ReSearch(3, error_message) + RETRY_BUFFER
    ELSE DEFAULT_RETRY_DELAY

\* _make_gemini_request_with_retry, lines 188-190: the delay is extracted
\* from the message of the exception
ExtractDelay ==
    /\ delay.pc = "input"
    /\ delay' = [delay EXCEPT !.pc = "done",
                              !.result = ExtractRetryDelay(delay.text)]
    /\ UNCHANGED <<scorer, fp, coord, reel, reel_ideas>>
    /\ UNCHANGED clientVars
    /\ UNCHANGED <<curator, store, meta, enable_relevance_scoring, cyc,
                   content_data, log, adv, scoreCalls, writeFailed, faults,
                   ncycles>>

InitDelay ==
    /\ IngestIdle
    /\ \E t \in ErrTexts(MaxErrLen) :
         delay = [pc |-> "input", text |-> t, result |-> NoMatch]
    /\ fp = NoFp
    /\ coord = NoCoord
    /\ reel = NoReel
    /\ reel_ideas = <<>>
    /\ ClientsIdle

NextDelay == ExtractDelay

SpecDelay == InitDelay /\ [][NextDelay]_vars

\* ------------------------------------------------------------ coordinator
RECURSIVE SourceListsOfLen(_)
SourceListsOfLen(n) ==
    IF n = 0 THEN {<<>>}
    ELSE {Append(l, s) : l \in SourceListsOfLen(n - 1), s \in Sources}

\* the feed_urls / subreddit_names a runner can pass, the empty list of the
\* configuration fallback included
SourceLists == UNION {SourceListsOfLen(n) : n \in 0..MaxSources}

\* fetch_multiple_feeds / fetch_multiple_subreddits up to the loop
StartMultiple ==
    /\ coord.pc = "idle"
    /\ cyc.pc = "idle"
    /\ \E urls \in SourceLists :
         coord' = [pc |-> "loop", urls |-> urls, i |-> 1, results |-> <<>>,
                   running |-> TRUE, successful |-> 0, total_new |-> 0]
    /\ UNCHANGED <<scorer, fp, delay, reel, reel_ideas>>
    /\ UNCHANGED clientVars
    /\ UNCHANGED <<curator, store, meta, enable_relevance_scoring, cyc,
                   content_data, log, adv, scoreCalls, writeFailed, faults,
                   ncycles>>

\* the loop calls fetch_feed / fetch_subreddit for the next source
FetchNext ==
    /\ coord.pc = "loop"
    /\ coord.running
    /\ coord.i <= Len(coord.urls)
    /\ BeginFetch(coord.urls[coord.i])

\* the loop after a call that raised: the exception leaves the loop
AfterFetchAbort(co, result) ==
    IF result.status = "error"
    THEN [co EXCEPT !.pc = "raised"]
    ELSE [co EXCEPT !.results = Append(@, result), !.i = @ + 1]

\* results.append(result), and on to the next source
AfterFetch(co, result) ==
    [co EXCEPT !.results = Append(@, result), !.i = @ + 1]

\* the new_items / new_posts field of the result record: the local counter
\* in the success return (fetch_feed line 345, fetch_subreddit line 385), the
\* literal 0 in the no-entries return and in the except branch (lines 357,
\* 397)
ResultNewItems(c) ==
    IF c.status = "success" THEN c.new_items_count ELSE 0

\* fetch_feed / fetch_subreddit returns its result record to the loop
ReturnResult ==
    /\ coord.pc = "loop"
    /\ cyc.pc = "done"
    /\ coord' = AfterFetch(coord, [src |-> cyc.src, status |-> cyc.status,
                                   new_items |-> ResultNewItems(cyc)])
    /\ cyc' = IdleCyc
    /\ log' = <<>>
    /\ UNCHANGED <<scorer, fp, delay, reel, reel_ideas>>
    /\ UNCHANGED clientVars
    /\ UNCHANGED <<curator, store, meta, enable_relevance_scoring,
                   content_data, adv, scoreCalls, writeFailed, faults,
                   ncycles>>

\* RSSFeedCurator.stop / RedditPostCurator.stop, called by the runner's stop
StopCurator ==
    /\ coord.pc = "loop"
    /\ coord.running
    /\ coord' = [coord EXCEPT !.running = FALSE]
    /\ UNCHANGED <<scorer, fp, delay, reel, reel_ideas>>
    /\ UNCHANGED clientVars
    /\ UNCHANGED <<curator, store, meta, enable_relevance_scoring, cyc,
                   content_data, log, adv, scoreCalls, writeFailed, faults,
                   ncycles>>

RECURSIVE SumNewItems(_)
SumNewItems(results) ==
    IF results = <<>> THEN 0
    ELSE results[1].new_items + SumNewItems(Tail(results))

\* the end of the loop (all sources done, or the break when running is
\* false) and the cycle summary; the success rate divides by
\* len(feed_urls), which raises ZeroDivisionError for an empty list
Summarize ==
    /\ coord.pc = "loop"
    /\ cyc.pc = "idle"
    /\ coord.i > Len(coord.urls) \/ ~coord.running
    /\ coord' = [coord EXCEPT
                   !.pc = IF Len(coord.urls) = 0 THEN "raised"
                          ELSE "returned",
                   !.total_new = SumNewItems(coord.results),
                   !.successful = Cardinality(
                       {k \in DOMAIN coord.results :
                            coord.results[k].status = "success"})]
    /\ UNCHANGED <<scorer, fp, delay, reel, reel_ideas>>
    /\ UNCHANGED clientVars
    /\ UNCHANGED <<curator, store, meta, enable_relevance_scoring, cyc,
                   content_data, log, adv, scoreCalls, writeFailed, faults,
                   ncycles>>

\* one call of fetch_multiple_feeds / fetch_multiple_subreddits by a curator
\* whose relevance scoring is disabled
InitMulti ==
    /\ curator \in Curators
    /\ store = <<>>
    /\ meta = <<>>
    /\ enable_relevance_scoring = FALSE
    /\ scorer = IdleScorer(DEFAULT_MIN_SCORE)
    /\ cyc = IdleCyc
    /\ content_data = NoContent
    /\ log = <<>>
    /\ adv = NoAdvance
    /\ scoreCalls = [i \in Fingerprints |-> 0]
    /\ writeFailed = FALSE
    /\ faults = 0
    /\ ncycles = 0
    /\ ExtraIdle

NextMulti ==
    \/ StartMultiple
    \/ FetchNext
    \/ ExamineEntry
    \/ WriteDoc
    \/ FinishFetch
    \/ ReturnResult
    \/ StopCurator
    \/ Summarize

SpecMulti == InitMulti /\ [][NextMulti]_vars

\* a statement of the loop body raises outside _store_content (the date
\* comparison of _is_new_content, _extract_content_data / _extract_post_data,
\* the title slice of the log line): control goes to the except branch of
\* fetch_feed lines 352-360 / fetch_subreddit lines 391-399, which logs and
\* returns the error result; the cursor update after the loop is skipped
RaiseInLoop ==
    /\ cyc.pc = "loop"
    /\ cyc.processed < Min(cyc.fetched, MaxItemsPerFeed)
    /\ faults + 1 <= MaxFaults
    /\ faults' = faults + 1
    /\ cyc' = [cyc EXCEPT !.pc = "done", !.status = "error"]
    /\ UNCHANGED <<curator, store, meta, enable_relevance_scoring, scorer,
                   content_data, log, adv, scoreCalls, writeFailed, ncycles>>
    /\ UNCHANGED extraVars

\* one call of fetch_multiple_feeds / fetch_multiple_subreddits in which a
\* loop body may raise
NextRaise ==
    \/ StartMultiple
    \/ FetchNext
    \/ ExamineEntry
    \/ WriteDoc
    \/ RaiseInLoop
    \/ FinishFetch
    \/ ReturnResult
    \/ StopCurator
    \/ Summarize

SpecRaise == InitMulti /\ [][NextRaise]_vars

\* ---------------------------------------------------- reel request client
\* the characters of a token of an error message; besides the tokens of the
\* delay patterns, "Q" is the text "Quota exceeded", "G" is "cannot
\* generate" and "A" is "API key not valid"
TokenText(tok) ==
    CASE tok = "P" -> <<"P", "l", "e", "a", "s", "e", " ", "r", "e", "t",
                        "r", "y", " ", "i", "n", " ">>
      [] tok = "R" -> <<"r", "e", "t", "r", "y", "_", "d", "e", "l", "a",
                        "y">>
      [] tok = "S" -> <<"s", "e", "c", "o", "n", "d", "s", ":">>
      [] tok = "Q" -> <<"Q", "u", "o", "t", "a", " ", "e", "x", "c", "e",
                        "e", "d", "e", "d">>
      [] tok = "G" -> <<"c", "a", "n", "n", "o", "t", " ", "g", "e", "n",
                        "e", "r", "a", "t", "e">>
      [] tok = "A" -> <<"A", "P", "I", " ", "k", "e", "y", " ", "n", "o",
                        "t", " ", "v", "a", "l", "i", "d">>
      [] OTHER -> <<tok>>

RECURSIVE MessageText(_)
\* str(e): the characters of the message
MessageText(msg) ==
    IF msg = <<>> THEN <<>>
    ELSE TokenText(Head(msg)) \o MessageText(Tail(msg))

\* str.lower on one character
LowerChar(c) ==
    CASE c = "P" -> "p"
      [] c = "Q" -> "q"
      [] c = "A" -> "a"
      [] c = "I" -> "i"
      [] OTHER -> c

Lower(text) == [i \in 1..Len(text) |-> LowerChar(text[i])]

\* the in operator on strings
Contains(text, sub) ==
    \E i \in 1..(Len(text) - Len(sub) + 1) :
        SubSeq(text, i, i + Len(sub) - 1) = sub

\* a classification that looks at the message as it is
IsRateLimitErrorCaseSensitive(error_message) ==
    \/ Contains(MessageText(error_message), <<"q", "u", "o", "t", "a">>)
    \/ Contains(MessageText(error_message), <<"r", "e", "t", "r", "y">>)
    \/ Contains(MessageText(error_message), <<"r", "a", "t", "e">>)

\* _make_gemini_request_with_retry line 188: the rate-limit test
IsRateLimitError(error_message) ==
    \/ Contains(Lower(MessageText(error_message)),
                <<"q", "u", "o", "t", "a">>)
    \/ Contains(Lower(MessageText(error_message)),
                <<"r", "e", "t", "r", "y">>)
    \/ Contains(Lower(MessageText(error_message)), <<"r", "a", "t", "e">>)

\* the messages of the exceptions the endpoint raises in this model
SampleErrors ==
    {<<"Q">>, <<"A">>, <<"G">>, <<"P", "9", "s">>,
     <<"Q", " ", "R", " ", "{", " ", "S", " ", "1", "9">>,
     <<"A", " ", "S", "9">>, <<"Q", " ", "S", "1">>}

\* what one generate_content call can give: a text, an empty text, or an
\* exception with a message
Outcomes ==
    {[kind |-> "text", msg |-> <<>>], [kind |-> "empty", msg |-> <<>>]}
        \cup {[kind |-> "error", msg |-> m] : m \in SampleErrors}

NoSleep == -1

NewRequest ==
    [pc |-> "attempt", attempt |-> 0, history |-> <<>>, result |-> "pending"]

\* a loop that allows one attempt more than MAX_RETRIES
AfterRequestOneMore(rq, out) ==
    LET last == rq.attempt >= MAX_RETRIES
        retryable == \/ out.kind = "empty"
                     \/ out.kind = "error" /\ IsRateLimitError(out.msg)
        entry == [kind |-> out.kind, msg |-> out.msg, slept |-> NoSleep]
    IN  IF out.kind = "text" \/ ~retryable \/ last
        THEN [rq EXCEPT !.pc = "returned",
                        !.result = IF out.kind = "text" THEN "text"
                                   ELSE "none",
                        !.history = Append(@, entry)]
        ELSE [rq EXCEPT !.attempt = @ + 1, !.history = Append(@, entry)]

\* one iteration of the loop of _make_gemini_request_with_retry: the call,
\* and then the return, or the sleep and the continue
AfterRequest(rq, out) ==
    LET last == rq.attempt >= MAX_RETRIES - 1
        retryable == \/ out.kind = "empty"
                     \/ out.kind = "error" /\ IsRateLimitError(out.msg)
        slept == IF out.kind = "empty" /\ ~last THEN EMPTY_RESPONSE_DELAY
                 ELSE IF retryable /\ ~last
                 THEN ExtractRetryDelay(out.msg)
                 ELSE NoSleep
        entry == [kind |-> out.kind, msg |-> out.msg, slept |-> slept]
    IN  IF out.kind = "text"
        THEN [rq EXCEPT !.pc = "returned", !.result = "text",
                        !.history = Append(@, entry)]
        ELSE IF retryable /\ ~last
        THEN [rq EXCEPT !.attempt = @ + 1, !.history = Append(@, entry)]
        ELSE [rq EXCEPT !.pc = "returned", !.result = "none",
                        !.history = Append(@, entry)]

RequestAttempt ==
    /\ req.pc = "attempt"
    /\ \E out \in Outcomes : req' = AfterRequest(req, out)
    /\ UNCHANGED <<curator, store, meta, enable_relevance_scoring, scorer,
                   cyc, content_data, log, adv, scoreCalls, writeFailed,
                   faults, ncycles>>
    /\ UNCHANGED <<fp, delay, coord, reel, reel_ideas, gate, runner, posts>>
    /\ UNCHANGED <<config, race, crashed>>

\* one request of the reel client and the scorer of a curator, each with its
\* retry loop
InitClients ==
    /\ IngestIdle
    /\ fp = NoFp
    /\ delay = NoDelay
    /\ coord = NoCoord
    /\ reel = NoReel
    /\ reel_ideas = <<>>
    /\ req = NewRequest
    /\ gate = NoGate
    /\ runner = NoRunner
    /\ posts = NoPosts
    /\ config = NoConfig
    /\ race = NoRace
    /\ crashed = NoCrash

NextClients ==
    \/ RequestAttempt
    \/ ScoreContent
    \/ ScoreAttempt(SampleResponses)

SpecClients == InitClients /\ [][NextClients]_vars

\* -------------------------------------------------------- rate-limit gate
Unset == -1

CallDurations == {0, MaxCallDuration}

IdleDurations == {0, MaxIdle}

\* the messages of the exceptions the scoring endpoint raises in this model
GateErrors == {<<"Q">>, <<"A">>, <<"P", "9", "s">>, <<"P", "9", "9", "s">>}

\* what one generate_content call of the scorer can give: a score, an empty
\* text, or an exception with a message
GateOutcomes ==
    {[resp |-> <<"1", "0">>, msg |-> <<>>], [resp |-> <<>>, msg |-> <<>>]}
        \cup {[resp |-> Exc, msg |-> m] : m \in GateErrors}

\* the clock at 0, no RelevanceScorer has called the endpoint yet
NewGate ==
    [now |-> 0, last_api_call |-> [c \in Curators |-> Unset], calls |-> 0,
     lastCallAt |-> Unset, gap |-> Unset, failedAt |-> Unset,
     error |-> <<>>, firstError |-> <<>>, waited |-> Unset,
     waitedFor |-> <<>>]

\* _call_gemini_api lines 154-161: the time at which the call goes out, for
\* the last call last of this RelevanceScorer (Unset: no _last_api_call)
GateStart(now, last) ==
    IF last # Unset /\ now - last < RATE_LIMIT_DELAY
    THEN now + (RATE_LIMIT_DELAY - (now - last))
    ELSE now

\* a curator hands the next new item to its scorer; after the feed curator
\* main starts the subreddit curator, which builds a RelevanceScorer of its
\* own
BeginItem ==
    /\ scorer.pc \in {"idle", "done"}
    /\ gate.now <= MaxNow
    /\ \E c \in Curators, d \in IdleDurations :
        /\ c = curator \/ (curator = "rss" /\ c = "reddit")
        /\ curator' = c
        /\ gate' = [gate EXCEPT !.now = @ + d, !.calls = 0,
                                !.failedAt = Unset, !.error = <<>>,
                                !.firstError = <<>>, !.waited = Unset,
                                !.waitedFor = <<>>]
    /\ scorer' = StartScoring(scorer, TRUE)
    /\ UNCHANGED <<store, meta, enable_relevance_scoring, cyc, content_data,
                   log, adv, scoreCalls, writeFailed, faults, ncycles>>
    /\ UNCHANGED <<fp, delay, coord, reel, reel_ideas, req, runner, posts>>
    /\ UNCHANGED <<config, race, crashed>>

\* one iteration of the retry loop with the clock: the wait of the gate,
\* the call, which takes d seconds, and its outcome
GatedAttempt ==
    /\ scorer.pc = "scoring"
    /\ gate.now <= MaxNow
    /\ \E out \in GateOutcomes, d \in CallDurations :
        LET start == GateStart(gate.now, gate.last_api_call[curator])
            retry == gate.calls >= 1 /\ gate.error # <<>>
        IN  /\ scorer' = AfterAttempt(scorer, out.resp)
            /\ gate' = [gate EXCEPT
                  !.now = start + d,
                  !.last_api_call[curator] = start,
                  !.calls = @ + 1,
                  !.lastCallAt = start,
                  !.gap = IF gate.lastCallAt = Unset THEN Unset
                          ELSE start - gate.lastCallAt,
                  !.failedAt = IF out.resp = Exc THEN start + d ELSE Unset,
                  !.error = out.msg,
                  !.firstError = IF gate.calls = 0 THEN out.msg ELSE @,
                  !.waited = IF retry THEN start - gate.failedAt ELSE Unset,
                  !.waitedFor = IF retry THEN gate.error ELSE <<>>]
    /\ UNCHANGED <<curator, store, meta, enable_relevance_scoring, cyc,
                   content_data, log, adv, scoreCalls, writeFailed, faults,
                   ncycles>>
    /\ UNCHANGED <<fp, delay, coord, reel, reel_ideas, req, runner, posts>>
    /\ UNCHANGED <<config, race, crashed>>

\* the scorers of one cycle of main on the clock
InitGate ==
    /\ IngestIdle
    /\ fp = NoFp
    /\ delay = NoDelay
    /\ coord = NoCoord
    /\ reel = NoReel
    /\ reel_ideas = <<>>
    /\ req = NoReq
    /\ gate = NewGate
    /\ runner = NoRunner
    /\ posts = NoPosts
    /\ config = NoConfig
    /\ race = NoRace
    /\ crashed = NoCrash

NextGate ==
    \/ BeginItem
    \/ GatedAttempt

SpecGate == InitGate /\ [][NextGate]_vars

\* ------------------------------------------------------------- entry loop
\* the entries a fetch can return in this section: entry i is published at
\* one fixed time, and a listing holds an entry once
PostPool == {[id |-> i, published |-> ((i - 1) % MaxT) + 1] : i \in 1..MaxPosts}

RECURSIVE PostListsOfLen(_)
PostListsOfLen(n) ==
    IF n = 0 THEN {<<>>}
    ELSE UNION {{Append(l, e) : e \in PostPool \ {l[k] : k \in DOMAIN l}} :
                   l \in PostListsOfLen(n - 1)}

\* subreddit.hot(limit=self.max_posts_per_subreddit * 2): at most twice the
\* limit; the feeds of this section are as long at most
PostLists == UNION {PostListsOfLen(n) : n \in 1..(2 * MaxItemsPerFeed)}

\* feed.entries[:self.max_items_per_feed] for a feed; the whole list for a
\* subreddit, whose loop breaks on its own counter
LatestEntries(c, list) ==
    IF c = "rss" THEN SubSeq(list, 1, Min(Len(list), MaxItemsPerFeed))
    ELSE list

\* a loop in which only a stored entry takes a slot
SlotCostStoredOnly(cls) == IF cls = "stored" THEN 1 ELSE 0

\* fetch_subreddit lines 353, 362, 365: processed_posts += 1 in each of the
\* three branches (fetch_feed: one step of enumerate)
SlotCost(cls) == 1

\* fetch_feed lines 309-327 / fetch_subreddit lines 343-365: one iteration
\* of the entry loop, scoring disabled; storeOk is false when _store_content
\* fails on the existence check or the write
ProcessPost ==
    /\ posts.pc = "loop"
    /\ posts.i <= Len(LatestEntries(curator, posts.list))
    /\ posts.processed_posts < MaxItemsPerFeed
    /\ \E storeOk \in BOOLEAN :
        LET entry == posts.list[posts.i]
            isNew == IsNewContent(curator, entry.published,
                                  posts.last_processed)
            exists == DocExists(store, entry.id)
            cls == IF ~isNew THEN "stale"
                   ELSE IF exists \/ ~storeOk THEN "duplicate"
                   ELSE "stored"
        IN  /\ isNew \/ storeOk
            /\ store' = IF cls = "stored"
                        THEN (entry.id :> ExtractContentData(curator,
                                  entry.id, entry.published)) @@ store
                        ELSE store
            /\ posts' = [posts EXCEPT
                  !.i = @ + 1,
                  !.processed_posts = @ + SlotCost(cls),
                  !.new_posts_count = IF cls = "stored" THEN @ + 1 ELSE @,
                  !.latest_processed_date =
                      IF cls = "stored"
                      THEN LatestProcessedDate(entry.published, @)
                      ELSE @,
                  !.outcomes = Append(@, [id |-> entry.id, cls |-> cls]),
                  !.failed = @ \/ ~storeOk]
    /\ UNCHANGED <<curator, meta, enable_relevance_scoring, scorer, cyc,
                   content_data, log, adv, scoreCalls, writeFailed, faults,
                   ncycles>>
    /\ UNCHANGED <<fp, delay, coord, reel, reel_ideas, req, gate, runner>>
    /\ UNCHANGED <<config, race, crashed>>

\* the end of the loop, the conditional cursor update and the result
\* record: processed_posts for a subreddit, len(latest_entries) for a feed
FinishLoop ==
    /\ posts.pc = "loop"
    /\ \/ posts.i > Len(LatestEntries(curator, posts.list))
       \/ posts.processed_posts >= MaxItemsPerFeed
    /\ posts' = [posts EXCEPT
          !.pc = "done",
          !.reported = IF curator = "rss"
                       THEN Len(LatestEntries(curator, posts.list))
                       ELSE posts.processed_posts]
    /\ meta' = IF ShouldUpdate(posts.new_posts_count,
                     posts.latest_processed_date, posts.last_processed)
               THEN UpdateMetadata(meta, posts.src,
                        posts.latest_processed_date, posts.new_posts_count,
                        TRUE)
               ELSE meta
    /\ UNCHANGED <<curator, store, enable_relevance_scoring, scorer,
                   cyc, content_data, log, adv, scoreCalls, writeFailed,
                   faults, ncycles>>
    /\ UNCHANGED <<fp, delay, coord, reel, reel_ideas, req, gate, runner>>
    /\ UNCHANGED <<config, race, crashed>>

\* a call of fetch_feed / fetch_subreddit at its entry loop: the list the
\* fetch returned, the cursor read, and the documents stored by earlier
\* cycles, one of which gave the cursor its time
InitLimit ==
    /\ curator \in Curators
    /\ \E present \in SUBSET {e.id : e \in PostPool} :
         store = [id \in present |->
                     ExtractContentData(curator, id, ((id - 1) % MaxT) + 1)]
    /\ \E last_processed \in
            {NoneT} \cup {store[id].published : id \in DOMAIN store} :
         meta = ("a" :> [last_processed |-> last_processed,
                         total_items_processed |-> Cardinality(DOMAIN store)])
    /\ enable_relevance_scoring = FALSE
    /\ scorer = IdleScorer(DEFAULT_MIN_SCORE)
    /\ cyc = IdleCyc
    /\ content_data = NoContent
    /\ log = <<>>
    /\ adv = NoAdvance
    /\ scoreCalls = [i \in Fingerprints |-> 0]
    /\ writeFailed = FALSE
    /\ faults = 0
    /\ ncycles = 0
    /\ fp = NoFp
    /\ delay = NoDelay
    /\ coord = NoCoord
    /\ reel = NoReel
    /\ reel_ideas = <<>>
    /\ req = NoReq
    /\ gate = NoGate
    /\ runner = NoRunner
    /\ config = NoConfig
    /\ race = NoRace
    /\ crashed = NoCrash
    /\ \E list \in PostLists :
         posts = [pc |-> "loop", src |-> "a", list |-> list,
                  last_processed |-> meta["a"].last_processed,
                  latest_processed_date |-> meta["a"].last_processed,
                  i |-> 1,
                  processed_posts |-> 0, new_posts_count |-> 0,
                  outcomes |-> <<>>, failed |-> FALSE, reported |-> 0,
                  storeAtFetch |-> DOMAIN store]

NextLimit ==
    \/ ProcessPost
    \/ FinishLoop

SpecLimit == InitLimit /\ [][NextLimit]_vars

\* --------------------------------------------------------- settings cache
\* the documents of the SETTINGS collection that the getters read
SettingsDocs == {"PROMPTS", "SOURCES"}

\* ConfigManager.__init__: an empty cache and no timestamp. The ghost fields
\* record the last read: the document, whether the cache served it, when
\* the data served was read from the store, and whether refresh_cache was
\* called since the read before
NewConfig ==
    [pc |-> "ready", now |-> 0, cache |-> <<>>, cache_timestamp |-> Unset,
     refreshed |-> FALSE,
     served |-> [doc |-> "none", fromCache |-> FALSE, readAt |-> Unset,
                 afterRefresh |-> FALSE]]

\* ConfigManager._is_cache_valid
IsCacheValid(cache_timestamp, now) ==
    IF cache_timestamp = Unset THEN FALSE
    ELSE now - cache_timestamp < CACHE_TTL

\* ConfigManager._get_from_firestore with a store connection; found is false
\* when the document does not exist or the read raises, and then the call
\* returns None and leaves the cache as it is
GetFromFirestore ==
    /\ config.pc = "ready"
    /\ \E document_id \in SettingsDocs, idle \in {0, MaxConfigIdle},
          found \in BOOLEAN :
        LET now == config.now + idle
            hit == /\ IsCacheValid(config.cache_timestamp, now)
                   /\ document_id \in DOMAIN config.cache
        IN  /\ now <= MaxConfigNow
            /\ ~hit \/ found
            /\ config' =
                 IF hit
                 THEN [config EXCEPT
                         !.now = now, !.refreshed = FALSE,
                         !.served = [doc |-> document_id, fromCache |-> TRUE,
                                     readAt |-> config.cache[document_id],
                                     afterRefresh |-> config.refreshed]]
                 ELSE IF found
                 THEN [config EXCEPT
                         !.now = now, !.refreshed = FALSE,
                         !.cache = (document_id :> now) @@ @,
                         !.cache_timestamp = now,
                         !.served = [doc |-> document_id, fromCache |-> FALSE,
                                     readAt |-> now,
                                     afterRefresh |-> config.refreshed]]
                 ELSE [config EXCEPT
                         !.now = now, !.refreshed = FALSE,
                         !.served = [doc |-> "none", fromCache |-> FALSE,
                                     readAt |-> Unset,
                                     afterRefresh |-> config.refreshed]]
    /\ UNCHANGED <<coreVars, stageVars, race, crashed>>

\* ConfigManager.refresh_cache
RefreshCache ==
    /\ config.pc = "ready"
    /\ ~config.refreshed
    /\ config' = [config EXCEPT !.cache = <<>>, !.cache_timestamp = Unset,
                                !.refreshed = TRUE]
    /\ UNCHANGED <<coreVars, stageVars, race, crashed>>

InitConfig ==
    /\ IngestIdle
    /\ fp = NoFp
    /\ delay = NoDelay
    /\ coord = NoCoord
    /\ reel = NoReel
    /\ reel_ideas = <<>>
    /\ req = NoReq
    /\ gate = NoGate
    /\ runner = NoRunner
    /\ posts = NoPosts
    /\ config = NewConfig
    /\ race = NoRace
    /\ crashed = NoCrash

NextConfig ==
    \/ GetFromFirestore
    \/ RefreshCache

SpecConfig == InitConfig /\ [][NextConfig]_vars

\* ---------------------------------------------------- two racing processes
\* the scores a process can get for the item: none, the lowest, the highest
RaceScores == {NoneScore, 0, 100}

IdleWriter == [pc |-> "start", content_data |-> NoContent]

\* two ingestion processes that have extracted the same entry, each about to
\* call _store_content; lost collects the fields of the stored document that
\* a write has replaced by another value or dropped
NewRace(id, published) ==
    [pc |-> "run", id |-> id, published |-> published,
     w |-> [p \in 1..2 |-> IdleWriter], writes |-> 0, lost |-> {}]

\* _store_content up to the write, in process p: the existence check, then
\* the scoring of the item when it is enabled
RaceCheck(p) ==
    /\ race.pc = "run"
    /\ race.w[p].pc = "start"
    /\ \E score \in RaceScores :
        LET content == ExtractContentData(curator, race.id, race.published)
            scored == IF enable_relevance_scoring
                      THEN DictUpdate(content,
                               ScoreResult(score, DEFAULT_MIN_SCORE))
                      ELSE content
        IN  /\ enable_relevance_scoring \/ score = NoneScore
            /\ race' = [race EXCEPT !.w[p] =
                  IF DocExists(store, race.id)
                  THEN [pc |-> "done", content_data |-> NoContent]
                  ELSE [pc |-> "checked", content_data |-> scored]]
    /\ UNCHANGED <<coreVars, stageVars, config, crashed>>

\* doc_ref.set(content_data): the document is created or replaced as a whole
SetDoc(st, id, doc) == (id :> doc) @@ st

\* the fields of old that new does not carry with the same value
FieldsLost(old, new) ==
    {f \in DOMAIN old : f \notin DOMAIN new \/ new[f] # old[f]}

\* the rest of _store_content in process p: doc_ref.set(content_data)
RaceSet(p) ==
    /\ race.pc = "run"
    /\ race.w[p].pc = "checked"
    /\ store' = SetDoc(store, race.id, race.w[p].content_data)
    /\ race' = [race EXCEPT
          !.w[p] = [pc |-> "done", content_data |-> NoContent],
          !.writes = @ + 1,
          !.lost = IF DocExists(store, race.id)
                   THEN @ \cup FieldsLost(store[race.id], store'[race.id])
                   ELSE @]
    /\ UNCHANGED <<curator, meta, enable_relevance_scoring, scorer, cyc,
                   content_data, log, adv, scoreCalls, writeFailed, faults,
                   ncycles>>
    /\ UNCHANGED <<stageVars, config, crashed>>

InitRace ==
    /\ curator \in Curators
    /\ store = <<>>
    /\ meta = <<>>
    /\ enable_relevance_scoring \in BOOLEAN
    /\ scorer = IdleScorer(DEFAULT_MIN_SCORE)
    /\ cyc = IdleCyc
    /\ content_data = NoContent
    /\ log = <<>>
    /\ adv = NoAdvance
    /\ scoreCalls = [i \in Fingerprints |-> 0]
    /\ writeFailed = FALSE
    /\ faults = 0
    /\ ncycles = 0
    /\ fp = NoFp
    /\ delay = NoDelay
    /\ coord = NoCoord
    /\ reel = NoReel
    /\ reel_ideas = <<>>
    /\ req = NoReq
    /\ gate = NoGate
    /\ runner = NoRunner
    /\ posts = NoPosts
    /\ config = NoConfig
    /\ \E id \in Ids, published \in T : race = NewRace(id, published)
    /\ crashed = NoCrash

NextRace ==
    \/ \E p \in 1..2 : RaceCheck(p)
    \/ \E p \in 1..2 : RaceSet(p)
    \/ HumanApprove

SpecRace == InitRace /\ [][NextRace]_vars

\* ------------------------------------------------------------------ crash
\* the process dies inside _store_content, after calculate_relevance_score
\* has returned (rss_curator.py line 244) and before doc_ref.set (line 254):
\* the locals of the call, the scorer instance and the log are gone; the
\* content store and the cursor collection are in Firestore and stay. The
\* crash is the only failure of the behaviour.
Crash ==
    /\ cyc.pc = "score"
    /\ scorer.pc = "done"
    /\ crashed.pc = "none"
    /\ faults = 0
    /\ faults' = MaxFaults
    /\ crashed' = [pc |-> "crashed", id |-> content_data.id,
                   published |-> content_data.published, src |-> cyc.src,
                   calls |-> scoreCalls[content_data.id],
                   cursor |-> CursorView(meta, cyc.src).last_processed]
    /\ cyc' = IdleCyc
    /\ scorer' = IdleScorer(scorer.min_score)
    /\ content_data' = NoContent
    /\ log' = <<>>
    /\ UNCHANGED <<curator, store, meta, enable_relevance_scoring, adv,
                   scoreCalls, writeFailed, ncycles>>
    /\ UNCHANGED <<fp, delay, coord, reel, reel_ideas, req, gate, runner,
                   posts, config, race>>

\* the document an earlier cycle of source "a" stored for its first entry,
\* scored 10
SeedDoc ==
    DictUpdate(ExtractContentData(curator, GenerateContentHash(curator, "a", 1),
                                  1),
               ScoreResult(10, DEFAULT_MIN_SCORE))

\* a curator with relevance scoring, either before its first cycle or after
\* a cycle of source "a" that stored the first entry and moved the cursor to
\* its time
InitCrash ==
    /\ curator \in Curators
    /\ enable_relevance_scoring = TRUE
    /\ \E seeded \in BOOLEAN :
         /\ store = IF seeded THEN (SeedDoc.id :> SeedDoc) ELSE <<>>
         /\ meta = IF seeded
                   THEN ("a" :> [last_processed |-> SeedDoc.published,
                                 total_items_processed |-> 1])
                   ELSE <<>>
         /\ scoreCalls = [i \in Fingerprints |->
                            IF seeded /\ i = SeedDoc.id THEN 1 ELSE 0]
    /\ scorer = IdleScorer(DEFAULT_MIN_SCORE)
    /\ cyc = IdleCyc
    /\ content_data = NoContent
    /\ log = <<>>
    /\ adv = NoAdvance
    /\ writeFailed = FALSE
    /\ faults = 0
    /\ ncycles = 0
    /\ ExtraIdle

NextCrash ==
    \/ \E s \in Sources : BeginFetch(s)
    \/ ExamineEntry
    \/ ScoreAttempt(SampleResponses)
    \/ WriteDoc
    \/ Crash
    \/ FinishFetch
    \/ Return

SpecCrash == InitCrash /\ [][NextCrash]_vars

\* ----------------------------------------------------------------- runner
\* a start that goes on to the cycle whatever came of the initialization
StartOutcomeAlways(built) == "cycle"

\* RSSCuratorRunner.start / RedditCuratorRunner.start: the return in the
\* except branch around the curator's construction
StartOutcome(built) == IF built THEN "cycle" ELSE "aborted"

\* a curator that keeps its flag when the scorer could not be built
ScoringAfterInitKept(enabled, scorerOk) == enabled

\* RSSFeedCurator.__init__ lines 72-80 / RedditPostCurator.__init__: the
\* flag after the attempt to build the RelevanceScorer
ScoringAfterInit(enabled, scorerOk) == enabled /\ scorerOk

NewRunner ==
    [pc |-> "new", running |-> FALSE, built |-> FALSE,
     storeInitFailed |-> FALSE, scorerFailed |-> FALSE]

\* start() up to the cycle: the curator's __init__ builds the scorer (a
\* failure only disables scoring), then _initialize_reddit (subreddit curator
\* only), then _initialize_firestore; the last two re-raise
StartRunner ==
    /\ runner.pc = "new"
    /\ ~runner.running
    /\ \E scorerOk \in BOOLEAN, redditOk \in BOOLEAN,
          firestoreOk \in BOOLEAN :
        LET redditInit == curator = "rss" \/ redditOk
            built == redditInit /\ firestoreOk
        IN  /\ enable_relevance_scoring \/ scorerOk
            /\ curator = "reddit" \/ redditOk
            /\ redditInit \/ firestoreOk
            /\ enable_relevance_scoring' =
                  ScoringAfterInit(enable_relevance_scoring, scorerOk)
            /\ runner' = [pc |-> StartOutcome(built), running |-> TRUE,
                          built |-> built,
                          storeInitFailed |-> redditInit /\ ~firestoreOk,
                          scorerFailed |->
                              enable_relevance_scoring /\ ~scorerOk]
    /\ UNCHANGED <<curator, store, meta, scorer, cyc, content_data, log,
                   adv, scoreCalls, writeFailed, faults, ncycles>>
    /\ UNCHANGED <<fp, delay, coord, reel, reel_ideas, req, gate, posts>>
    /\ UNCHANGED <<config, race, crashed>>

\* _run_curation_cycle: the call of fetch_multiple_feeds /
\* fetch_multiple_subreddits
RunCurationCycle ==
    /\ runner.pc = "cycle"
    /\ StartMultiple

\* the end of _run_curation_cycle (an exception of the call is caught and
\* logged) and the stop() of start's finally, which stops the curator too
StopRunner ==
    /\ runner.pc = "cycle"
    /\ coord.pc \in {"returned", "raised"}
    /\ runner' = [runner EXCEPT !.pc = "stopped", !.running = FALSE]
    /\ coord' = [coord EXCEPT !.running = FALSE]
    /\ UNCHANGED <<curator, store, meta, enable_relevance_scoring, scorer,
                   cyc, content_data, log, adv, scoreCalls, writeFailed,
                   faults, ncycles>>
    /\ UNCHANGED <<fp, delay, reel, reel_ideas, req, gate, posts>>
    /\ UNCHANGED <<config, race, crashed>>

\* a runner as main builds it, before start()
InitRunner ==
    /\ curator \in Curators
    /\ store = <<>>
    /\ meta = <<>>
    /\ enable_relevance_scoring \in BOOLEAN
    /\ scorer = IdleScorer(DEFAULT_MIN_SCORE)
    /\ cyc = IdleCyc
    /\ content_data = NoContent
    /\ log = <<>>
    /\ adv = NoAdvance
    /\ scoreCalls = [i \in Fingerprints |-> 0]
    /\ writeFailed = FALSE
    /\ faults = 0
    /\ ncycles = 0
    /\ fp = NoFp
    /\ delay = NoDelay
    /\ coord = NoCoord
    /\ reel = NoReel
    /\ reel_ideas = <<>>
    /\ req = NoReq
    /\ gate = NoGate
    /\ runner = NewRunner
    /\ posts = NoPosts
    /\ config = NoConfig
    /\ race = NoRace
    /\ crashed = NoCrash

NextRunner ==
    \/ StartRunner
    \/ RunCurationCycle
    \/ FetchNext
    \/ ExamineEntry
    \/ ScoreAttempt(SampleResponses)
    \/ WriteDoc
    \/ FinishFetch
    \/ ReturnResult
    \/ StopCurator
    \/ Summarize
    \/ StopRunner

SpecRunner == InitRunner /\ [][NextRunner]_vars

\* ------------------------------------------------------------ reel stage
reelFrame ==
    <<curator, meta, enable_relevance_scoring, scorer, cyc, content_data,
      log, adv, scoreCalls, writeFailed, faults, ncycles, fp, delay, coord,
      req, gate, runner, posts, config, race, crashed>>

RECURSIVE SeqOfSet(_)
\* the documents of a query come in the order of their ids
SeqOfSet(S) ==
    IF S = {} THEN <<>>
    ELSE LET m == CHOOSE x \in S : \A y \in S : x <= y
         IN  <<m>> \o SeqOfSet(S \ {m})

\* get_approved_raw_ideas: the ids of the matching documents, or nothing when
\* the query raises
GetApprovedRawIdeas(st, queryOk) ==
    IF queryOk
    THEN SeqOfSet({id \in DOMAIN st : IsApprovedRawIdea(st[id])})
    ELSE <<>>

\* a generation that gives up on a response of another length than asked for
GenerateReelsStrict(isList, n) ==
    IF isList /\ n = DEFAULT_REELS_PER_IDEA THEN n ELSE 0

\* generate_reels_for_idea: the length of the value returned, for a response
\* that parses to a value of length n, a list or not (a missing response, a
\* response that is not JSON, and any exception give the empty list, n = 0);
\* a mismatch with reels_per_idea is only logged
GenerateReelsForIdea(isList, n) == n

\* save_reels_to_firestore: the collection after the call; ok is the outcome
\* of building and committing the batch
SaveReelsToFirestore(ri, id, n, ok) ==
    IF n > 0 /\ ok THEN Append(ri, [raw_idea_id |-> id, n |-> n]) ELSE ri

\* save_reels_to_firestore: the value returned
SaveReturns(n, ok) == n > 0 /\ ok

\* a loop that marks the idea whatever came of the generation and the save
ShouldMarkAlways(n, saved) == TRUE

\* process_all_approved_ideas lines 311-315: "if reels" and "if save(...)"
ShouldMark(n, saved) == n > 0 /\ saved

\* mark_raw_idea_as_processed: the collection after the call
MarkRawIdeaAsProcessed(st, id, ok) ==
    IF ok /\ id \in DOMAIN st
    THEN [st EXCEPT ![id] = DictUpdate(@, [reel_generated |-> TRUE])]
    ELSE st

NoIdea == [id |-> 0]

IdleReel ==
    [pc |-> "idle", raw_ideas |-> <<>>, i |-> 1, processed_ideas |-> 0,
     failed_ideas |-> 0, total_reels_generated |-> 0, cycles |-> 0,
     queryOk |-> TRUE, unsaved |-> {}, unsavedPrev |-> {}, last |-> NoIdea]

\* process_all_approved_ideas up to the loop: the query, and the early return
\* when it selects nothing
StartReelCycle ==
    /\ reel.pc \in {"idle", "done"}
    /\ reel.cycles < MaxReelCycles
    /\ \E queryOk \in BOOLEAN :
        LET raw_ideas == GetApprovedRawIdeas(store, queryOk)
        IN  reel' = [IdleReel EXCEPT
                       !.pc = IF raw_ideas = <<>> THEN "done" ELSE "loop",
                       !.raw_ideas = raw_ideas,
                       !.cycles = reel.cycles + 1,
                       !.queryOk = queryOk,
                       !.unsavedPrev = reel.unsaved]
    /\ UNCHANGED <<store, reel_ideas>>
    /\ UNCHANGED reelFrame

\* one iteration of the loop of process_all_approved_ideas: generate, save,
\* mark, count
ProcessIdea ==
    /\ reel.pc = "loop"
    /\ reel.i <= Len(reel.raw_ideas)
    /\ \E isList \in BOOLEAN, parsed \in 0..MaxReels,
          saveOk \in BOOLEAN, markOk \in BOOLEAN :
        LET id == reel.raw_ideas[reel.i]
            n == GenerateReelsForIdea(isList, parsed)
            saved == SaveReturns(n, saveOk)
            marking == ShouldMark(n, saved)
            marked == marking /\ markOk
        IN  /\ n > 0 \/ saveOk
            /\ saved \/ markOk
            /\ parsed > 0 \/ isList
            /\ reel_ideas' = SaveReelsToFirestore(reel_ideas, id, n, saveOk)
            /\ store' = IF marking
                        THEN MarkRawIdeaAsProcessed(store, id, markOk)
                        ELSE store
            /\ reel' = [reel EXCEPT
                  !.i = @ + 1,
                  !.processed_ideas = IF marked THEN @ + 1 ELSE @,
                  !.failed_ideas = IF marked THEN @ ELSE @ + 1,
                  !.total_reels_generated = IF marked THEN @ + n ELSE @,
                  !.unsaved = IF saved THEN @ ELSE @ \cup {id},
                  !.last = [id |-> id, isList |-> isList, parsed |-> parsed,
                            saveOk |-> saveOk, markOk |-> markOk,
                            saved |-> saved]]
    /\ UNCHANGED reelFrame

\* process_all_approved_ideas after the loop: the result record
FinishReelCycle ==
    /\ reel.pc = "loop"
    /\ reel.i > Len(reel.raw_ideas)
    /\ reel' = [reel EXCEPT !.pc = "done"]
    /\ UNCHANGED <<store, reel_ideas>>
    /\ UNCHANGED reelFrame

\* the documents of RAW_IDEAS when the reel stage starts: feed entries and
\* posts as the curators store them, none approved yet
InitReel ==
    /\ curator \in Curators
    /\ \E types \in [Ids -> Curators] :
         store = [id \in Ids |-> ExtractContentData(types[id], id, 1)]
    /\ meta = <<>>
    /\ enable_relevance_scoring = FALSE
    /\ scorer = IdleScorer(DEFAULT_MIN_SCORE)
    /\ cyc = IdleCyc
    /\ content_data = NoContent
    /\ log = <<>>
    /\ adv = NoAdvance
    /\ scoreCalls = [i \in Fingerprints |-> 0]
    /\ writeFailed = FALSE
    /\ faults = 0
    /\ ncycles = 0
    /\ fp = NoFp
    /\ delay = NoDelay
    /\ coord = NoCoord
    /\ reel = IdleReel
    /\ reel_ideas = <<>>
    /\ ClientsIdle

NextReel ==
    \/ HumanApprove
    \/ StartReelCycle
    \/ ProcessIdea
    \/ FinishReelCycle

SpecReel == InitReel /\ [][NextReel]_vars

\* the cursor-advance operation on its own, on a cursor that starts at any
\* value
InitCursor ==
    /\ curator = "rss"
    /\ store = <<>>
    /\ \E t0 \in [Sources -> {NoneT} \cup T] :
        /\ meta = [s \in Sources |->
                     [last_processed |-> t0[s], total_items_processed |-> 0]]
        /\ adv = [s \in Sources |->
                    [top |-> t0[s], sum |-> 0, calls |-> 0]]
    /\ enable_relevance_scoring = TRUE
    /\ scorer = IdleScorer(DEFAULT_MIN_SCORE)
    /\ cyc = IdleCyc
    /\ content_data = NoContent
    /\ log = <<>>
    /\ scoreCalls = [i \in Fingerprints |-> 0]
    /\ writeFailed = FALSE
    /\ faults = 0
    /\ ncycles = 0
    /\ ExtraIdle

NextCursor == \E s \in Sources : AdvanceCursor(s)

SpecCursor == InitCursor /\ [][NextCursor]_vars

TypeOK ==
    /\ DOMAIN store \subseteq Fingerprints
    /\ DOMAIN meta \subseteq Sources
    /\ cyc.pc \in {"idle", "loop", "score", "write", "done"}
    /\ scorer.pc \in {"idle", "scoring", "done"}
    /\ faults \in 0..MaxFaults
    /\ ncycles \in 0..MaxCycles

\* ------------------------------------------------- vocabulary of the claims
MaxOf(S) == CHOOSE x \in S : \A y \in S : x >= y

Entries == 1..Len(log)

PublishedSeen == {log[k].published : k \in Entries}

ValidScores == (0..100) \cup {SENTINEL}

\* the value _call_gemini_api parses out of a response text, if any
HasParsedValue(resp) ==
    /\ resp # Exc
    /\ resp # <<>>
    /\ PyIntOk(resp) \/ ReFindall(resp) # <<>>

ParsedValue(resp) ==
    IF PyIntOk(resp) THEN PyIntVal(resp) ELSE DecVal(ReFindall(resp)[1])

OutOfRange(resp) ==
    HasParsedValue(resp) /\ ~(ParsedValue(resp) \in 0..100)

\* ---------------------------------------------------------------- claims
\* C1: the store holds one document per fingerprint id; a _store_content
\* call for an id already present returns False (the entry is reported as a
\* duplicate) and no step of an ingestion cycle removes or changes an
\* existing document, whatever human_approved / reel_generated it carries.
C1_NoOverwrite ==
    [][ /\ \A i \in DOMAIN store' : store'[i].id = i
        /\ ~HumanApprove =>
             \A i \in DOMAIN store :
                 i \in DOMAIN store' /\ store'[i] = store[i]
        /\ \A k \in 1..Len(log') :
             (log'[k].isNew /\ log'[k].present)
                 => log'[k].cls = "duplicate" ]_vars

C1_Witness ==
    /\ log # <<>>
    /\ log[Len(log)].cls = "duplicate"
    /\ log[Len(log)].present
    /\ log[Len(log)].err = "none"
    /\ "human_approved" \in DOMAIN store[log[Len(log)].id]
    /\ store[log[Len(log)].id].human_approved

\* C2: the last_processed value persisted for a source never decreases,
\* whatever the cycles (a failed cursor read included).
C2_CursorNeverDecreases ==
    [][ \A s \in DOMAIN meta :
            /\ s \in DOMAIN meta'
            /\ meta'[s].last_processed >= meta[s].last_processed ]_vars

\* C3: after any sequence of cursor-advance calls with timestamps T1..Tn on
\* a cursor that starts at T0, last_processed is max(T0, T1..Tn) and the
\* counter has grown by the sum of the deltas.
C3_AdvanceIsMax ==
    \A s \in Sources :
        adv[s].calls > 0 =>
            /\ meta[s].last_processed = adv[s].top
            /\ meta[s].total_items_processed = adv[s].sum

\* C4: without write failures calculate_relevance_score is invoked at most
\* once per fingerprint, and it is invoked only for an entry classified new
\* whose fingerprint is not in the store.
C4_AtMostOnceScoring ==
    /\ ~writeFailed => \A i \in Fingerprints : scoreCalls[i] <= 1
    /\ \A k \in Entries :
         log[k].scored => log[k].isNew /\ ~log[k].present
    /\ scorer.pc # "idle" =>
         /\ log # <<>>
         /\ log[Len(log)].scored
         /\ scoreCalls[log[Len(log)].id] >= 1
    /\ \A i \in Fingerprints : scoreCalls[i] >= 1 =>
         \/ i \in DOMAIN store
         \/ writeFailed
         \/ cyc.pc = "score" /\ log[Len(log)].id = i

C4_Witness ==
    /\ ~writeFailed
    /\ log # <<>>
    /\ log[Len(log)].cls \in {"stale", "duplicate"}
    /\ log[Len(log)].present
    /\ scoreCalls[log[Len(log)].id] = 1
    /\ ncycles = 2

\* C5: a scoring that exhausts its attempts or hits a fatal error returns
\* relevance_score -1 and is_relevant false, whatever min_score the scorer
\* has.
C5_SentinelContract ==
    (scorer.pc = "done" /\ scorer.score = NoneScore) =>
        /\ scorer.result.relevance_score = SENTINEL
        /\ scorer.result.is_relevant = FALSE

\* C6: with scoring enabled every relevance_score returned and stored is in
\* 0..100 or is -1; a response whose parsed value is outside 0..100 yields no
\* score, is followed by another attempt while attempts remain, and ends in
\* the sentinel otherwise.
C6_ScoreRange ==
    /\ enable_relevance_scoring =>
         \A i \in DOMAIN store :
             /\ "relevance_score" \in DOMAIN store[i]
             /\ store[i].relevance_score \in ValidScores
    /\ scorer.pc = "done" => scorer.result.relevance_score \in ValidScores
    /\ (scorer.attempt > 0 /\ OutOfRange(scorer.resp)) =>
         /\ scorer.score = NoneScore
         /\ scorer.attempt < DEFAULT_MAX_RETRIES => scorer.pc = "scoring"
         /\ scorer.pc = "done" =>
              scorer.result.relevance_score = SENTINEL

C6_Witness ==
    /\ cyc.pc = "score"
    /\ scorer.pc = "scoring"
    /\ scorer.attempt = 1
    /\ OutOfRange(scorer.resp)
    /\ ParsedValue(scorer.resp) > 100

\* C7: an entry is classified new iff its published timestamp is null (also
\* after an unparsable date) or later than the cursor read for the cycle, a
\* null cursor being earlier than every timestamp; an entry published at the
\* cursor is stale.
C7_NewIffLater ==
    \A k \in Entries :
        log[k].isNew <=>
            \/ log[k].published = NoneT
            \/ cyc.last_processed = NoneT
            \/ log[k].published > cyc.last_processed

C7_Witness ==
    /\ cyc.last_processed # NoneT
    /\ \E k \in Entries :
         log[k].published = cyc.last_processed /\ log[k].cls = "stale"
    /\ \E k \in Entries :
         log[k].published = NoneT /\ log[k].isNew /\ log[k].cls = "stored"

\* C8: a cycle whose entries are all in the store already creates no
\* document; a cycle that stores no item issues no cursor update and leaves
\* the documents and the source's cursor record as they were.
C8_IdempotentCycle ==
    cyc.pc = "done" =>
        /\ (\A k \in Entries : log[k].id \in DOMAIN cyc.storeBefore)
             => cyc.new_items_count = 0
        /\ cyc.new_items_count = 0 =>
             /\ ~cyc.updated
             /\ store = cyc.storeBefore
             /\ CursorView(meta, cyc.src) = cyc.cursorBefore

C8_Witness ==
    /\ cyc.pc = "done"
    /\ cyc.status = "success"
    /\ Len(log) = 2
    /\ log[1].id # log[2].id
    /\ \A k \in Entries : log[k].id \in DOMAIN cyc.storeBefore
    /\ cyc.cursorBefore.total_items_processed = 2
    /\ cyc.new_items_count = 0

\* a finished cycle whose entries are dated, are in the store since before
\* the cycle with the same date, and whose cursor, as persisted and as read,
\* is the latest of their dates
SecondPass ==
    /\ cyc.pc = "done"
    /\ cyc.status = "success"
    /\ log # <<>>
    /\ \A k \in Entries :
         /\ log[k].published # NoneT
         /\ log[k].id \in DOMAIN cyc.storeBefore
         /\ cyc.storeBefore[log[k].id].published = log[k].published
    /\ cyc.cursorBefore.last_processed = MaxOf(PublishedSeen)
    /\ cyc.last_processed = MaxOf(PublishedSeen)

\* C9 as stated: in such a second pass every entry reaches the existence
\* check and is skipped there as a duplicate.
C9_SkippedAsDuplicates ==
    SecondPass =>
        \A k \in Entries : log[k].isNew /\ log[k].cls = "duplicate"

\* C9 amended: in such a second pass every entry is skipped as stale by the
\* cursor comparison, before any existence check; nothing is scored or
\* stored and the cursor record is left as it was.
C9_SkippedAsStale ==
    SecondPass =>
        /\ \A k \in Entries :
             ~log[k].isNew /\ log[k].cls = "stale" /\ ~log[k].scored
        /\ cyc.new_items_count = 0
        /\ ~cyc.updated
        /\ store = cyc.storeBefore
        /\ CursorView(meta, cyc.src) = cyc.cursorBefore

C9_Witness ==
    /\ SecondPass
    /\ Len(log) = 2
    /\ log[1].id # log[2].id

\* a finished cycle without failures, scoring enabled, that began with a
\* null cursor and an empty store and fetched at most max_items_per_feed
\* dated entries of distinct fingerprints
FirstPass ==
    /\ cyc.pc = "done"
    /\ cyc.status = "success"
    /\ enable_relevance_scoring
    /\ faults = cyc.faultsBefore
    /\ cyc.cursorBefore.last_processed = NoneT
    /\ cyc.storeBefore = <<>>
    /\ cyc.fetched <= MaxItemsPerFeed
    /\ Len(log) = cyc.fetched
    /\ \A k \in Entries : log[k].published # NoneT
    /\ \A j \in Entries, k \in Entries : log[j].id = log[k].id => j = k

\* C10: such a cycle classifies all n entries new, scores and stores all n,
\* sets last_processed to the latest of their dates and adds n to the
\* source's counter.
C10_FirstCycle ==
    FirstPass =>
        /\ \A k \in Entries :
             /\ log[k].isNew
             /\ log[k].scored
             /\ log[k].cls = "stored"
             /\ scoreCalls[log[k].id] >= 1
             /\ ~writeFailed => scoreCalls[log[k].id] = 1
             /\ log[k].id \in DOMAIN store
             /\ store[log[k].id].published = log[k].published
             /\ "relevance_score" \in DOMAIN store[log[k].id]
        /\ cyc.new_items_count = cyc.fetched
        /\ cyc.src \in DOMAIN meta
        /\ meta[cyc.src].last_processed = MaxOf(PublishedSeen)
        /\ meta[cyc.src].total_items_processed =
               cyc.cursorBefore.total_items_processed + cyc.fetched

C10_Witness ==
    /\ FirstPass
    /\ cyc.fetched = 2
    /\ log[1].published < log[2].published

\* C11: two distinct field triples, fields holding the delimiter included,
\* never give the same delimiter-joined string to the hash.
C11_DistinctTriplesDistinctStrings ==
    (fp.pc = "hashed" /\ fp.x # fp.y) => fp.sx # fp.sy

\* the forms of a suggested delay in an error text s: "Please retry in N.fs"
\* (m digits after the point, none and no point when m = 0),
\* "retry_delay { seconds: N }" and "seconds: N", N having k digits
AllDigitsIn(s, from, to) ==
    to <= Len(s) /\ \A n \in from..to : IsDigit(s[n])

AllWsIn(s, from, to) == to <= Len(s) /\ \A n \in from..to : s[n] = " "

EndsNumber(s, i) == i > Len(s) \/ ~IsDigit(s[i])

PleaseRetryForm(s, i, k, m) ==
    /\ s[i] = "P"
    /\ k >= 1
    /\ AllDigitsIn(s, i + 1, i + k)
    /\ \/ m = 0 /\ IsLetterS(s, i + k + 1)
       \/ /\ m >= 1
          /\ Is(s, i + k + 1, ".")
          /\ AllDigitsIn(s, i + k + 2, i + k + 1 + m)
          /\ IsLetterS(s, i + k + 2 + m)

SecondsForm(s, i, c, k) ==
    /\ s[i] = "S"
    /\ c > i
    /\ AllWsIn(s, i + 1, c - 1)
    /\ k >= 1
    /\ AllDigitsIn(s, c, c + k - 1)
    /\ EndsNumber(s, c + k)

RetryDelayForm(s, i, c, k) ==
    /\ s[i] = "R"
    /\ \E a \in (i + 1)..Len(s), b \in (i + 2)..Len(s) :
         /\ a < b
         /\ AllWsIn(s, i + 1, a - 1)
         /\ s[a] = "{"
         /\ AllWsIn(s, a + 1, b - 1)
         /\ SecondsForm(s, b, c, k)

Pos == 1..MaxErrLen + 1
Lens == 0..MaxErrLen + 1

HasPleaseRetry(s, i) == \E k \in Lens, m \in Lens : PleaseRetryForm(s, i, k, m)
HasRetryDelay(s, i) == \E c \in Pos, k \in Lens : RetryDelayForm(s, i, c, k)
HasSeconds(s, i) == \E c \in Pos, k \in Lens : SecondsForm(s, i, c, k)

NoneBefore(Has(_, _), s, i) == \A n \in 1..(i - 1) : ~Has(s, n)
NoneIn(Has(_, _), s) == \A n \in DOMAIN s : ~Has(s, n)

\* C12: the delay extracted is the integer part of the suggested delay plus
\* 5 seconds, the suggestion being the leftmost "Please retry in N.fs" if
\* there is one, else the leftmost "retry_delay { seconds: N }" if there is
\* one, else the leftmost "seconds: N".
C12_DelayPlusBuffer ==
    delay.pc = "done" =>
        \A i \in DOMAIN delay.text, c \in Pos, k \in Lens :
            /\ (/\ \E m \in Lens : PleaseRetryForm(delay.text, i, k, m)
                /\ NoneBefore(HasPleaseRetry, delay.text, i))
                 => delay.result =
                      DecVal(SubSeq(delay.text, i + 1, i + k)) + 5
            /\ (/\ RetryDelayForm(delay.text, i, c, k)
                /\ NoneBefore(HasRetryDelay, delay.text, i)
                /\ NoneIn(HasPleaseRetry, delay.text))
                 => delay.result =
                      DecVal(SubSeq(delay.text, c, c + k - 1)) + 5
            /\ (/\ SecondsForm(delay.text, i, c, k)
                /\ NoneBefore(HasSeconds, delay.text, i)
                /\ NoneIn(HasPleaseRetry, delay.text)
                /\ NoneIn(HasRetryDelay, delay.text))
                 => delay.result =
                      DecVal(SubSeq(delay.text, c, c + k - 1)) + 5

C12_Witness ==
    /\ delay.pc = "done"
    /\ delay.text = <<"P", "9", ".", "9", "s">>
    /\ delay.result = 14

\* C13: for an error text holding none of the three forms the delay
\* extracted is DEFAULT_RETRY_DELAY; the extraction always returns a number.
C13_DefaultDelay ==
    delay.pc = "done" =>
        /\ delay.result \in Nat
        /\ (/\ NoneIn(HasPleaseRetry, delay.text)
            /\ NoneIn(HasRetryDelay, delay.text)
            /\ NoneIn(HasSeconds, delay.text))
             => delay.result = DEFAULT_RETRY_DELAY

C13_Witness ==
    /\ delay.pc = "done"
    /\ delay.text = <<"P", "9", ".", "s">>
    /\ delay.result = DEFAULT_RETRY_DELAY

\* C14: when the fetch of a source raises, the call records a result with
\* status error and no new item for it and goes on with the remaining
\* sources; unless a stop was requested it returns one result per configured
\* source, in the configured order.
C14_FailureIsolation ==
    (coord.pc \in {"returned", "raised"} /\ coord.running
        /\ coord.urls # <<>>) =>
        /\ coord.pc = "returned"
        /\ Len(coord.results) = Len(coord.urls)
        /\ \A k \in DOMAIN coord.results :
             /\ coord.results[k].src = coord.urls[k]
             /\ coord.results[k].status \in {"success", "no_entries", "error"}
             /\ coord.results[k].status = "error" =>
                  coord.results[k].new_items = 0

C14_Witness ==
    /\ coord.pc = "returned"
    /\ coord.running
    /\ Len(coord.results) = 2
    /\ coord.results[1].status = "error"
    /\ coord.results[2].status = "success"
    /\ coord.results[2].new_items >= 1

\* C15: fetch_multiple_feeds / fetch_multiple_subreddits never raises,
\* whatever the configured list (the empty one included) and the failures of
\* the sources.
C15_NeverRaises == coord.pc # "raised"

\* C16: when the write of an item fails during a cycle and the item is still
\* not stored at its end, the cycle leaves the
\* source's cursor where it was or at a value for which the item is still
\* new, whatever else the cycle stored, so the next cycle takes the item up
\* again.
C16_FailedWriteStaysNew ==
    cyc.pc = "done" =>
        \A k \in DOMAIN log :
            (log[k].err = "set" /\ ~DocExists(store, log[k].id)) =>
                LET after == CursorView(meta, cyc.src).last_processed
                IN  \/ after = cyc.cursorBefore.last_processed
                    \/ IsNewContent(curator, log[k].published, after)

\* C17: when the read of a source's metadata record raises, the getter
\* returns the zero-valued record (last_processed null, counter 0) and every
\* entry the cycle examines is classified new.
C17_CursorReadFailsOpen ==
    cyc.readFailed =>
        /\ cyc.metadata = ZeroCursor
        /\ cyc.last_processed = NoneT
        /\ \A k \in DOMAIN log : log[k].isNew

\* a cycle whose cursor read failed although a cursor was persisted, which
\* went on to the end and took an entry for new that the cursor had passed
C17_Witness ==
    /\ cyc.pc = "done"
    /\ cyc.status = "success"
    /\ cyc.readFailed
    /\ cyc.cursorBefore.last_processed # NoneT
    /\ \E k \in DOMAIN log :
         /\ log[k].published # NoneT
         /\ log[k].published <= cyc.cursorBefore.last_processed
         /\ log[k].isNew

\* C18: every document the curators store, for a feed entry as for a post,
\* has reel_generated false and human_approved false from its creation, so
\* that once the review has set human_approved the reel stage's query
\* selects it.
C18_FlagsAtCreation ==
    \A id \in DOMAIN store :
        /\ "human_approved" \in DOMAIN store[id]
        /\ "reel_generated" \in DOMAIN store[id]
        /\ store[id].reel_generated = FALSE
        /\ store[id].human_approved => IsApprovedRawIdea(store[id])

\* --------------------------------------------------------------- C19, C20
RawIdeasSelected == {reel.raw_ideas[k] : k \in DOMAIN reel.raw_ideas}

ReelGenerated(id) ==
    "reel_generated" \in DOMAIN store[id] /\ store[id].reel_generated

\* C19: an item's reel_generated flag is true only when a batch of its reels
\* has been committed; an item whose generation gave nothing or whose batch
\* write failed keeps the flag false, and the next cycle whose query succeeds
\* selects it again.
C19_FlagOnlyAfterBatch ==
    /\ \A id \in DOMAIN store :
         ReelGenerated(id) =>
             \E k \in DOMAIN reel_ideas :
                 reel_ideas[k].raw_idea_id = id /\ reel_ideas[k].n > 0
    /\ (reel.last # NoIdea /\ ~reel.last.saved) =>
           ~ReelGenerated(reel.last.id)
    /\ \A id \in reel.unsaved : ~ReelGenerated(id)
    /\ (reel.pc = "loop" /\ reel.i = 1 /\ reel.queryOk) =>
           \A id \in reel.unsavedPrev :
               id \in RawIdeasSelected /\ ~ReelGenerated(id)

\* an item whose batch write failed in one cycle is selected by the next
C19_Witness ==
    /\ reel.pc = "loop"
    /\ reel.i = 1
    /\ reel.cycles = 2
    /\ reel.unsavedPrev # {}
    /\ reel.unsavedPrev \subseteq RawIdeasSelected
    /\ \E id \in DOMAIN store : ReelGenerated(id)

\* C20: when the response parses to a list of n > 0 objects with n other than
\* the target count, and the batch write and the flag update go through, the
\* n objects are written in one batch, the parent's flag is true and the idea
\* counts as processed.
C20_CountTolerance ==
    (/\ reel.last # NoIdea
     /\ reel.last.isList
     /\ reel.last.parsed > 0
     /\ reel.last.parsed # DEFAULT_REELS_PER_IDEA
     /\ reel.last.saveOk
     /\ reel.last.markOk) =>
        /\ reel_ideas # <<>>
        /\ reel_ideas[Len(reel_ideas)] =
             [raw_idea_id |-> reel.last.id, n |-> reel.last.parsed]
        /\ ReelGenerated(reel.last.id)
        /\ reel.processed_ideas >= 1
        /\ reel.total_reels_generated >= reel.last.parsed

C20_Witness ==
    /\ reel.last # NoIdea
    /\ reel.last.isList
    /\ reel.last.parsed = 1
    /\ reel.last.saveOk
    /\ reel.last.markOk
    /\ reel_ideas = <<[raw_idea_id |-> reel.last.id, n |-> 1]>>
    /\ ReelGenerated(reel.last.id)

\* C21: when the store initialization fails in a runner's start, the start
\* returns before the cycle: no source is fetched, no scoring call is made,
\* and no cursor or content document is read or written, then or later.
C21_InitFailureAborts ==
    runner.storeInitFailed =>
        /\ runner.pc = "aborted"
        /\ ~runner.built
        /\ coord.pc = "idle"
        /\ cyc = IdleCyc
        /\ ncycles = 0
        /\ \A i \in Fingerprints : scoreCalls[i] = 0
        /\ scorer.pc = "idle"
        /\ store = <<>>
        /\ meta = <<>>

C21_Witness ==
    /\ runner.storeInitFailed
    /\ runner.pc = "aborted"
    /\ runner.running
    /\ curator = "reddit"
    /\ enable_relevance_scoring

\* C22: when the scoring of a new item fails (no attempt gives a score, or
\* the scorer raises), the item is written with relevance_score -1 and
\* is_relevant false, the loop goes on with the next entry, and the call
\* ends only when every entry within the limit has been examined.
C22_ScoringFailureIsolated ==
    [][/\ (/\ cyc.pc = "score"
           /\ scorer.pc = "done"
           /\ scorer.score = NoneScore
           /\ cyc' # cyc) =>
              LET n == Len(log)
                  id == log[n].id
              IN  /\ cyc'.pc = "loop"
                  /\ cyc'.processed = cyc.processed + 1
                  /\ log'[n].err = "none" =>
                       /\ log'[n].cls = "stored"
                       /\ id \in DOMAIN store'
                       /\ store'[id].relevance_score = SENTINEL
                       /\ store'[id].is_relevant = FALSE
       /\ (cyc'.pc = "done" /\ cyc'.status = "success") =>
              cyc'.processed = Min(cyc'.fetched, MaxItemsPerFeed)
      ]_vars

\* a call that stored an item whose scoring failed and then a scored one
C22_Witness ==
    /\ cyc.pc = "done"
    /\ Len(log) = 2
    /\ log[1].cls = "stored"
    /\ log[1].scored
    /\ store[log[1].id].relevance_score = SENTINEL
    /\ ~store[log[1].id].is_relevant
    /\ log[2].cls = "stored"
    /\ store[log[2].id].relevance_score >= 0

\* ------------------------------------------------------------- C23..C27
Attempts == DOMAIN req.history

\* an attempt of the reel client that raised a rate-limit error and was
\* followed by another attempt
RetriedRateLimit(k) ==
    /\ req.history[k].kind = "error"
    /\ IsRateLimitError(req.history[k].msg)
    /\ k < Len(req.history) \/ req.pc = "attempt"

\* the delay the server suggests in a message, if the patterns find one
SuggestedDelay(msg) ==
    IF ReSearch(1, msg) # NoMatch THEN ReSearch(1, msg)
    ELSE IF ReSearch(2, msg) # NoMatch THEN ReSearch(2, msg)
    ELSE ReSearch(3, msg)

\* C23: before every retry after a rate-limit error the reel client sleeps
\* the base delay (the suggested one, or the default 60 when none is found)
\* plus the 5-second margin, in the default case too.
C23_SleepIsBasePlusMargin ==
    \A k \in Attempts :
        RetriedRateLimit(k) =>
            req.history[k].slept =
                (IF SuggestedDelay(req.history[k].msg) # NoMatch
                 THEN SuggestedDelay(req.history[k].msg)
                 ELSE DEFAULT_RETRY_DELAY) + RETRY_BUFFER

\* the message has a token whose text holds quota, retry or rate, in any
\* case
HasIndicator(msg) == \E i \in DOMAIN msg : msg[i] \in {"P", "R", "Q", "G"}

\* C26: the reel client takes an exception for rate-limited iff its text
\* contains quota, retry or rate, whatever the case; a rate-limited failure
\* with attempts left is followed by a sleep of the extracted delay and
\* another attempt; a failure that is not rate-limited ends the request at
\* once with a null result.
C26_RateLimitClassification ==
    \A k \in Attempts :
        req.history[k].kind = "error" =>
            LET msg == req.history[k].msg
            IN  /\ IsRateLimitError(msg) <=> HasIndicator(msg)
                /\ (HasIndicator(msg) /\ k < MAX_RETRIES) =>
                     /\ req.history[k].slept = ExtractRetryDelay(msg)
                     /\ k < Len(req.history) \/ req.pc = "attempt"
                /\ ~HasIndicator(msg) =>
                     /\ k = Len(req.history)
                     /\ req.pc = "returned"
                     /\ req.result = "none"
                     /\ req.history[k].slept = NoSleep

\* a quota error in capitals retried after 60 s, then a fatal error
C26_Witness ==
    /\ Len(req.history) = 2
    /\ req.history[1] = [kind |-> "error", msg |-> <<"Q">>, slept |-> 60]
    /\ req.history[2] = [kind |-> "error", msg |-> <<"A">>,
                         slept |-> NoSleep]
    /\ req.pc = "returned"
    /\ req.result = "none"

\* C27: the scorer calls the endpoint at most max_retries (3) times for an
\* item and the reel client at most MAX_RETRIES (3) times for a request;
\* each stops at the first attempt that gives a valid result, and after the
\* last attempt returns without another sleep, so after at most three calls
\* the request has ended.
C27_BoundedAttempts ==
    /\ Len(req.history) <= MAX_RETRIES
    /\ Len(req.history) = MAX_RETRIES => req.pc = "returned"
    /\ \A k \in Attempts :
         req.history[k].kind = "text" =>
             /\ k = Len(req.history)
             /\ req.pc = "returned"
             /\ req.result = "text"
    /\ req.pc = "returned" =>
         req.history[Len(req.history)].slept = NoSleep
    /\ req.pc = "attempt" => req.attempt = Len(req.history)
    /\ scorer.attempt <= DEFAULT_MAX_RETRIES
    /\ scorer.attempt = DEFAULT_MAX_RETRIES => scorer.pc = "done"
    /\ (scorer.attempt >= 1 /\ scorer.score # NoneScore) =>
         scorer.pc = "done"

\* both clients out of attempts
C27_Witness ==
    /\ Len(req.history) = MAX_RETRIES
    /\ req.result = "none"
    /\ req.history[1].slept = EMPTY_RESPONSE_DELAY
    /\ req.history[2].slept > EMPTY_RESPONSE_DELAY
    /\ scorer.pc = "done"
    /\ scorer.attempt = DEFAULT_MAX_RETRIES
    /\ scorer.score = NoneScore

\* C24: in the scorer an endpoint failure whose text has no rate-limit
\* indicator is fatal for the item: the endpoint has been called exactly once
\* for it and the result is the sentinel -1.
C24_FatalErrorNotRetried ==
    (gate.firstError # <<>> /\ ~HasIndicator(gate.firstError)) =>
        /\ gate.calls = 1
        /\ scorer.pc = "done"
        /\ scorer.result.relevance_score = SENTINEL

\* C25: when a call of the scorer fails with a rate-limit error that suggests
\* a delay and another attempt follows, that attempt's call goes out no
\* earlier than the suggested delay plus the margin after the failure.
C25_WaitsSuggestedDelay ==
    (/\ gate.waited # Unset
     /\ HasIndicator(gate.waitedFor)
     /\ SuggestedDelay(gate.waitedFor) # NoMatch) =>
        gate.waited >= SuggestedDelay(gate.waitedFor) + RETRY_BUFFER

\* C28: between any two consecutive calls of the scoring endpoint, whatever
\* the items, the sources and the curators they belong to, at least
\* rate_limit_delay seconds pass.
C28_SharedGate ==
    gate.gap # Unset => gate.gap >= RATE_LIMIT_DELAY

\* ---------------------------------------------------------------- C29, C30
CountOutcomes(cls) ==
    Cardinality({k \in DOMAIN posts.outcomes : posts.outcomes[k].cls = cls})

\* C29: a call examines at most per_source_limit entries, the first ones of
\* the fetched list in its order; each examined entry takes one slot,
\* stored, duplicate or stale, so stored + duplicate + stale = processed <=
\* per_source_limit, and the processed count reported is that sum.
C29_OneSlotPerEntry ==
    posts.pc # "idle" =>
        /\ posts.processed_posts <= MaxItemsPerFeed
        /\ Len(posts.outcomes) <= Len(posts.list)
        /\ \A k \in DOMAIN posts.outcomes :
             posts.outcomes[k].id = posts.list[k].id
        /\ posts.processed_posts = Len(posts.outcomes)
        /\ CountOutcomes("stored") + CountOutcomes("duplicate")
             + CountOutcomes("stale") = posts.processed_posts
        /\ posts.new_posts_count = CountOutcomes("stored")
        /\ posts.pc = "done" =>
             /\ posts.reported = posts.processed_posts
             /\ posts.reported = Min(Len(posts.list), MaxItemsPerFeed)

\* a call that used its slots on a stale entry and a duplicate and left a
\* fetched entry unexamined
C29_Witness ==
    /\ posts.pc = "done"
    /\ Len(posts.list) > MaxItemsPerFeed
    /\ posts.reported = MaxItemsPerFeed
    /\ CountOutcomes("stale") = 1
    /\ CountOutcomes("duplicate") = 1
    /\ ~posts.failed

\* the entries among the first 2 x per_source_limit fetched that are new for
\* the cursor and absent from the store when the call starts
FreshFetched ==
    {posts.list[k].id : k \in
        {j \in 1..Min(Len(posts.list), 2 * MaxItemsPerFeed) :
            /\ IsNewContent(curator, posts.list[j].published,
                            posts.last_processed)
            /\ posts.list[j].id \notin posts.storeAtFetch}}

\* C30: when at least per_source_limit of the first 2 x per_source_limit
\* fetched entries are new and absent from the store, the call stores
\* per_source_limit items, whatever already-processed entries lead the list.
C30_MarginAbsorbsProcessed ==
    (/\ posts.pc = "done"
     /\ ~posts.failed
     /\ Cardinality(FreshFetched) >= MaxItemsPerFeed) =>
        posts.new_posts_count = MaxItemsPerFeed

\* -------------------------------------------------------------------- C40
\* C40: after a runner's start() has returned by any path (the cycle
\* completed, the cycle raised, or the curator could not be built), the
\* runner's running flag is false, so that a later start() on the same
\* runner passes the already-running check and runs a cycle.
C40_StartLeavesNotRunning ==
    runner.pc \in {"stopped", "aborted"} => ~runner.running

\* -------------------------------------------------------------------- C38
\* C38: when the RelevanceScorer cannot be built, the curator disables
\* scoring instead of failing: the construction of the curator does not
\* fail for that reason and ingestion runs, the curator makes no call of
\* the scorer, and what it stores carries neither relevance_score nor
\* is_relevant.
C38_ScorerFailureDisablesScoring ==
    runner.pc # "idle" /\ runner.scorerFailed =>
        /\ ~enable_relevance_scoring
        /\ runner.built <=> ~runner.storeInitFailed
                              /\ runner.pc # "aborted"
        /\ \A i \in Fingerprints : scoreCalls[i] = 0
        /\ scorer = IdleScorer(DEFAULT_MIN_SCORE)
        /\ cyc.pc # "score"
        /\ \A id \in DOMAIN store :
             /\ "relevance_score" \notin DOMAIN store[id]
             /\ "is_relevant" \notin DOMAIN store[id]

\* a runner whose scorer failed has run its cycle and stored an item
C38_Witness ==
    /\ runner.pc = "stopped"
    /\ runner.scorerFailed
    /\ coord.pc = "returned"
    /\ coord.total_new > 0
    /\ store # <<>>

\* -------------------------------------------------------------------- C39
\* C39: ConfigManager never serves a cached settings document more than
\* _cache_ttl (300 seconds) after that document was last read from the
\* store, whatever the interleaving of reads of PROMPTS and SOURCES; and
\* after refresh_cache the next read of any document goes to the store.
C39_CacheNeverOlderThanTtl ==
    /\ config.pc = "ready" /\ config.served.fromCache =>
          config.now - config.served.readAt <= CACHE_TTL
    /\ config.pc = "ready" /\ config.served.afterRefresh =>
          ~config.served.fromCache

\* -------------------------------------------------------------------- C31
\* C31: when two ingestion processes both pass the existence check for the
\* same fingerprint before either writes, the second write does not replace
\* the document the first one created, and no field written or changed after
\* the first write (the scores, human_approved, reel_generated) is lost.
C31_SecondWriteSilent ==
    race.pc = "run" => race.lost = {}

\* -------------------------------------------------------------------- C32
HumanApproved(id) ==
    "human_approved" \in DOMAIN store[id] /\ store[id].human_approved

\* the ideas of the running call that the loop has not handled yet
IdeasPending ==
    {reel.raw_ideas[k] : k \in reel.i..Len(reel.raw_ideas)}

\* C32: the reel stage calls the generation endpoint only for items that had
\* human_approved = true and reel_generated = false when the call selected
\* them, handles each selected item at most once per call, and never
\* selects an item again once its reel_generated flag is true.
C32_SelectsApprovedOnce ==
    [][/\ \A j \in DOMAIN reel'.raw_ideas, k \in DOMAIN reel'.raw_ideas :
             j # k => reel'.raw_ideas[j] # reel'.raw_ideas[k]
       /\ (reel.pc \in {"idle", "done"} /\ reel'.pc \in {"loop", "done"}
             /\ reel'.cycles = reel.cycles + 1) =>
             \A id \in DOMAIN store :
                 id \in RawIdeasSelected' =>
                     /\ HumanApproved(id)
                     /\ ~ReelGenerated(id)
       /\ (reel.pc = "loop" /\ reel'.i = reel.i + 1) =>
             /\ reel'.last.id = reel.raw_ideas[reel.i]
             /\ HumanApproved(reel'.last.id)
             /\ ~ReelGenerated(reel'.last.id)
             /\ reel'.raw_ideas = reel.raw_ideas
       /\ \A id \in DOMAIN store :
             ReelGenerated(id) =>
                 /\ id \in DOMAIN store'
                 /\ "reel_generated" \in DOMAIN store'[id]
                 /\ store'[id].reel_generated
                 /\ id \notin IdeasPending'
      ]_vars

\* a second call that has left out the item flagged by the first one and
\* has handled another item
C32_Witness ==
    /\ reel.cycles = 2
    /\ reel.pc = "loop"
    /\ reel.i = 2
    /\ Len(reel.raw_ideas) = 1
    /\ \E id \in DOMAIN store :
         /\ ReelGenerated(id)
         /\ id \notin RawIdeasSelected
         /\ id # reel.last.id

\* -------------------------------------------------------------------- C37
\* the fingerprints of the entries of source s
FingerprintsOf(s) == {GenerateContentHash(curator, s, i) : i \in Ids}

\* C37: a source's persisted last_processed is always null or the published
\* time of a document stored while that source was processed: a step that
\* gives it another value than null or the one it had gives it the
\* published time of an entry that the running call of that source has
\* stored, never that of an entry skipped or of a failed write.
C37_CursorIsStoredTimestamp ==
    [][/\ \A s \in DOMAIN meta' :
             \/ meta'[s].last_processed = NoneT
             \/ \E id \in DOMAIN store' \cap FingerprintsOf(s) :
                    store'[id].published = meta'[s].last_processed
       /\ \A s \in DOMAIN meta' \cap DOMAIN meta :
             (/\ meta'[s].last_processed # meta[s].last_processed
              /\ meta'[s].last_processed # NoneT) =>
                 /\ s = cyc.src
                 /\ \E k \in Entries :
                      /\ log[k].cls = "stored"
                      /\ log[k].published = meta'[s].last_processed
                      /\ log[k].id \in DOMAIN store
                      /\ store[log[k].id].published = log[k].published
      ]_vars

\* a call that skipped a stale entry, failed to write a newer one, and
\* whose source has a cursor set by an earlier call
C37_Witness ==
    /\ cyc.pc = "done"
    /\ cyc.status = "success"
    /\ cyc.src \in DOMAIN meta
    /\ \E j \in Entries, k \in Entries :
         /\ log[j].cls = "stale"
         /\ log[k].err = "set"
         /\ log[k].published > meta[cyc.src].last_processed
    /\ meta[cyc.src].last_processed # NoneT

Unexamined == (Len(posts.outcomes) + 1)..Len(posts.list)

\* C36: an entry that was fetched, was newer than the cursor the call
\* started with, and was left unexamined because the limit was reached, is
\* still new for the cursor the call leaves behind.
C36_UnexaminedStayNew ==
    posts.pc = "done" /\ ~posts.failed =>
        \A k \in Unexamined :
            IsNewContent(curator, posts.list[k].published,
                         posts.last_processed)
              => IsNewContent(curator, posts.list[k].published,
                              meta[posts.src].last_processed)


\* C34: the cycle summary's total of new items equals the number of
\* documents created in the content store during the cycle, also when the
\* processing of a source raised after some of its items were stored. The
\* store is empty when the cycle starts, so the documents created are the
\* documents of the store.
C34_TotalMatchesStore ==
    coord.pc = "returned" => coord.total_new = Cardinality(DOMAIN store)


\* the log record of the entry the loop has just taken up, when it is the
\* entry of the crash met again by a later call for the same source
Reexamined ==
    /\ crashed.pc = "crashed"
    /\ cyc.src = crashed.src
    /\ Len(log') = Len(log) + 1
    /\ log'[Len(log')].id = crashed.id
    /\ log'[Len(log')].published = crashed.published

\* the cursor of the crashed call's source is the one that call had read:
\* no later call for the source has moved it
CursorUnmoved ==
    CursorView(meta, crashed.src).last_processed = crashed.cursor

\* C35: a crash after an item was scored and before its document is written
\* leaves the content store and the cursor as they were before the item was
\* examined (no step from the examination to the crash changes them); the
\* next call for the same source, which reads the cursor of the crash,
\* classifies the entry new again, and when no document of its id is stored
\* it is scored once more and then stored; once it is stored, meeting it
\* again scores and stores nothing.
C35_CrashThenStoredOnce ==
    [][/\ (cyc'.pc = "score" \/ crashed' # crashed)
            => (store' = store /\ meta' = meta)
       /\ crashed' # crashed => crashed'.id \notin DOMAIN store'
       /\ (Reexamined /\ CursorUnmoved) => log'[Len(log')].isNew
       /\ (Reexamined /\ CursorUnmoved /\ crashed.id \notin DOMAIN store)
            => /\ cyc'.pc = "score"
               /\ scoreCalls'[crashed.id] = scoreCalls[crashed.id] + 1
               /\ scoreCalls'[crashed.id] > crashed.calls
       /\ (Reexamined /\ crashed.id \in DOMAIN store)
            => /\ cyc'.pc = "loop"
               /\ log'[Len(log')].cls \in {"stale", "duplicate"}
               /\ scoreCalls' = scoreCalls
               /\ store' = store
       /\ (crashed.pc = "crashed" /\ cyc.pc = "score" /\ cyc'.pc = "loop"
           /\ content_data.id = crashed.id)
            => /\ crashed.id \in DOMAIN store'
               /\ crashed.id \notin DOMAIN store
               /\ store'[crashed.id] =
                    DictUpdate(content_data, scorer.result)]_vars

\* the entry of the crash is stored by the next call for its source, under a
\* cursor that is not null, after being scored twice
C35_Witness ==
    /\ crashed.pc = "crashed"
    /\ crashed.id \in DOMAIN store
    /\ cyc.src = crashed.src
    /\ cyc.last_processed # NoneT
    /\ scoreCalls[crashed.id] = crashed.calls + 1
    /\ \E k \in DOMAIN log : log[k].id = crashed.id /\ log[k].cls = "stored"
====
